---- MODULE Spec2Model ----
(***************************************************************************)
(* A model of the DEFLATE codec of gzip-rust: the LZ77 matcher             *)
(* (src/src/deflate.rs), the Huffman coder and block encoder               *)
(* (src/src/trees.rs), the bit writer (src/src/main.rs) and the decoder    *)
(* (src/src/inflate.rs).                                                   *)
(*                                                                         *)
(* Each struct of the program is a record with the struct's field names.   *)
(* An operation of the program is an operator from a machine record        *)
(*   M = [d: Deflate, t: Trees, g: GzipState, i: Inflate, halt, ret]       *)
(* to the machine record after the operation; M.ret is the value the       *)
(* operation returns and M.halt is "" while the process is alive, and a    *)
(* text starting with "panic" (a Rust panic) or "exit" (gzip_error, which  *)
(* ends the process) once it is not.                                       *)
(*                                                                         *)
(* Integers: TLC's integers are 32 bits wide.  u8/u16/usize values are     *)
(* plain naturals.  A u64 (opt_len, static_len, compressed_len) or a       *)
(* wrapping u32 (huft_build's y) is held as a signed residue r that        *)
(* stands for r when r >= 0 and for 2^w + r when r < 0; see U64 below.     *)
(* Arithmetic overflow panics in a debug build and wraps in a release      *)
(* build; M.build says which build runs.                                   *)
(***************************************************************************)
EXTENDS Integers, Sequences, FiniteSets, TLC

VARIABLES
  env,    \* the run: input file, compression level, build profile
  pc,     \* position of the single thread of control
  dfl,    \* struct Deflate (deflate.rs) and the locals of deflate_fast
  trs,    \* struct Trees (trees.rs)
  gzs,    \* struct GzipState (main.rs): bit buffer, files, buffers
  ifl,    \* struct Inflate (inflate.rs)
  halt,   \* "" while running, else how the process ended
  obs     \* what the run has shown so far (tokens, blocks, results)

vars == <<env, pc, dfl, trs, gzs, ifl, halt, obs>>

(***************************************************************************)
(* Loops.  While(C, F, k, s) is the state after `while C(s) { s = F(s) }`  *)
(* provided the loop ends within 2^(k+1) - 1 iterations; it recurses to    *)
(* depth k only.                                                           *)
(***************************************************************************)
RECURSIVE While(_, _, _, _)
While(C(_), F(_), k, s) ==
  IF ~C(s) THEN s
  ELSE IF k = 0 THEN F(s)
  ELSE LET h == While(C, F, k - 1, s) IN While(C, F, k - 1, h)

\* The same loop for at most 16^k turns.  The states after each sixteenth of
\* the turns are computed one after the other, in the tuple of the tests.
RECURSIVE While16(_, _, _, _)
While16(C(_), F(_), k, s) ==
  IF ~C(s) THEN s
  ELSE IF k = 0 THEN F(s)
  ELSE LET s1 == While16(C, F, k - 1, s)
           s2 == While16(C, F, k - 1, s1)
           s3 == While16(C, F, k - 1, s2)
           s4 == While16(C, F, k - 1, s3)
           s5 == While16(C, F, k - 1, s4)
           s6 == While16(C, F, k - 1, s5)
           s7 == While16(C, F, k - 1, s6)
           s8 == While16(C, F, k - 1, s7)
           s9 == While16(C, F, k - 1, s8)
           s10 == While16(C, F, k - 1, s9)
           s11 == While16(C, F, k - 1, s10)
           s12 == While16(C, F, k - 1, s11)
           s13 == While16(C, F, k - 1, s12)
           s14 == While16(C, F, k - 1, s13)
           s15 == While16(C, F, k - 1, s14)
       IN IF Len(<<C(s1), C(s2), C(s3), C(s4), C(s5), C(s6), C(s7), C(s8), C(s9),
                   C(s10), C(s11), C(s12), C(s13), C(s14), C(s15)>>) = 15
          THEN While16(C, F, k - 1, s15)
          ELSE s

(***************************************************************************)
(* Bit arithmetic on naturals below 2^31.                                  *)
(***************************************************************************)
Pow2(n) == 2 ^ n

Shr(x, n) == x \div Pow2(n)

\* x << n in a w-bit register: the bits shifted past bit w-1 are lost.
Shl(x, n, w) == IF n >= w THEN 0 ELSE ((x % Pow2(w - n)) * Pow2(n))

RECURSIVE BitXor(_, _)
BitXor(a, b) ==
  IF a = 0 THEN b
  ELSE IF b = 0 THEN a
  ELSE ((a + b) % 2) + 2 * BitXor(a \div 2, b \div 2)

RECURSIVE BitAnd(_, _)
BitAnd(a, b) ==
  IF a = 0 \/ b = 0 THEN 0
  ELSE ((a % 2) * (b % 2)) + 2 * BitAnd(a \div 2, b \div 2)

RECURSIVE BitOr(_, _)
BitOr(a, b) ==
  IF a = 0 THEN b
  ELSE IF b = 0 THEN a
  ELSE (IF (a % 2) + (b % 2) > 0 THEN 1 ELSE 0) + 2 * BitOr(a \div 2, b \div 2)

Min(a, b) == IF a < b THEN a ELSE b
Max(a, b) == IF a > b THEN a ELSE b

(***************************************************************************)
(* u64 values.  [h |-> h, r |-> r] stands for h * 2^61 + r, with r a       *)
(* signed offset far smaller than 2^61: 0 <= value < 2^64 means h = 0 and  *)
(* r >= 0, or h = 8 and r < 0 (a value just below 2^64, which is what a    *)
(* wrapping subtraction below 0 leaves), or h = 1 (such a value shifted    *)
(* right by 3).                                                            *)
(***************************************************************************)
U64(n) == [h |-> 0, r |-> n]

\* h * 2^61 + r brought back into 0 .. 2^64 - 1 (arithmetic modulo 2^64)
U64Norm(h, r) ==
  IF h = 0 /\ r < 0 THEN [h |-> 8, r |-> r]
  ELSE IF h >= 8 /\ (h > 8 \/ r >= 0) THEN [h |-> h - 8, r |-> r]
  ELSE [h |-> h, r |-> r]

\* a + b leaves 0 .. 2^64 - 1 (b a u64 too)
U64AddOverflows(a, b) == (a.h + b.h > 8) \/ (a.h + b.h = 8 /\ a.r + b.r >= 0)

U64Add(a, b) == U64Norm(a.h + b.h, a.r + b.r)

\* a - n < 0, for a small natural n
U64SubUnderflows(a, n) == a.h = 0 /\ a.r - n < 0

U64Sub(a, n) == U64Norm(a.h, a.r - n)

U64Shr3(a) ==
  IF a.h = 8 THEN [h |-> 1, r |-> a.r \div 8] ELSE [h |-> a.h \div 8, r |-> a.r \div 8]

U64Shl3(a) == [h |-> a.h * 8, r |-> a.r * 8]

U64AndNot7(a) == [h |-> a.h, r |-> a.r - (a.r % 8)]

U64Le(a, b) == a.h < b.h \/ (a.h = b.h /\ a.r <= b.r)

U64Eq(a, b) == a.h = b.h /\ a.r = b.r

(***************************************************************************)
(* Arrays.  A zero-initialised array [0; N] is held as the sequence of its *)
(* cells below the highest cell written so far; the cells above read 0.    *)
(* Indices are 0-based as in the source.  The caller checks the index      *)
(* against the array's length N, where the source can go out of range.     *)
(***************************************************************************)
ArrGet(a, x) == IF x < Len(a) THEN a[x + 1] ELSE 0

ArrSet(a, x, v) ==
  LET n == Len(a)
  IN IF x < n THEN [a EXCEPT ![x + 1] = v]
     ELSE a \o [k \in 1..(x + 1 - n) |-> IF k = x + 1 - n THEN v ELSE 0]

\* a table indexed by a hash: the entries written so far, the others read 0
MapGet(f, x) == IF x \in DOMAIN f THEN f[x] ELSE 0

MapSet(f, x, v) == IF x \in DOMAIN f THEN [f EXCEPT ![x] = v] ELSE (x :> v) @@ f

EmptyMap == [x \in {} |-> 0]

\* TLC holds [k \in S |-> e] as the rule e; these are the same function
\* held as the table of its values.
SeqOf(f) == <<>> \o f

FnOf(f) == f @@ EmptyMap

(***************************************************************************)
(* The machine and how it stops.                                           *)
(***************************************************************************)
Panic(M, why) == IF M.halt = "" THEN [M EXCEPT !.halt = "panic: " \o why] ELSE M

\* gzip_error: prints and calls do_exit(ERROR)              (main.rs 1157-1164)
gzip_error(M, msg) == IF M.halt = "" THEN [M EXCEPT !.halt = "exit: " \o msg] ELSE M

Ret(M, v) == [M EXCEPT !.ret = v]

Debug(M) == M.build = "debug"

(***************************************************************************)
(* The input file of a run is a list of segments, so that a long input     *)
(* stays small in the state:                                               *)
(*   [k |-> "seq", b |-> <<bytes>>]        the bytes b                     *)
(*   [k |-> "run", c |-> c, n |-> n]       n copies of the byte c          *)
(*   [k |-> "uniq", lo |-> a, n |-> n]     n bytes in which no three       *)
(*        consecutive bytes occur twice: the pairs (lo + x, lo + 64 + y),  *)
(*        x in 0..63, y in 0..47, in lexicographic order                   *)
(*   [k |-> "pairs", lo, hi, off, p, n]    n bytes: the pairs (lo + x,     *)
(*        hi + y) in the same order, from byte off on, and from there      *)
(*        again after every p bytes                                        *)
(***************************************************************************)
SegLen(sg) == IF sg.k = "seq" THEN Len(sg.b) ELSE sg.n

\* byte j of the pairs (lo + x, hi + y), x in 0..63, y in 0..47
PairsAt(sg, j) ==
  IF j % 2 = 0 THEN sg.lo + (((j \div 2) \div 48) % 64) ELSE sg.hi + ((j \div 2) % 48)

SegAt(sg, j) ==
  IF sg.k = "seq" THEN sg.b[j + 1]
  ELSE IF sg.k = "run" THEN sg.c
  ELSE IF sg.k = "pairs" THEN PairsAt(sg, sg.off + (j % sg.p))
  ELSE LET q == j \div 2
       IN IF j % 2 = 0 THEN sg.lo + ((q \div 48) % 64) ELSE sg.lo + 64 + (q % 48)

RECURSIVE InLenFrom(_, _)
InLenFrom(inp, k) == IF k > Len(inp) THEN 0 ELSE SegLen(inp[k]) + InLenFrom(inp, k + 1)

InLen(inp) == InLenFrom(inp, 1)

RECURSIVE InAtFrom(_, _, _)
InAtFrom(inp, k, j) ==
  IF j < SegLen(inp[k]) THEN SegAt(inp[k], j) ELSE InAtFrom(inp, k + 1, j - SegLen(inp[k]))

\* byte j (from 0) of the input
InAt(inp, j) == InAtFrom(inp, 1, j)

\* the whole input as a sequence (for short inputs)
InBytes(inp) == [j \in 1..InLen(inp) |-> InAt(inp, j - 1)]

(***************************************************************************)
(* main.rs: the output side of GzipState.                                  *)
(***************************************************************************)
\* the bytes String::from_utf8_lossy(&[byte]) holds: a byte that is not
\* valid UTF-8 on its own becomes U+FFFD
Utf8Lossy(byte) == IF byte < 128 THEN <<byte>> ELSE <<239, 191, 189>>

\* fn put_byte                                              (main.rs 1536-1546)
put_byte(M, byte) ==
  IF M.halt # "" THEN M
  ELSE IF M.g.to_stdout /\ Utf8Lossy(byte)[1] # byte
  THEN [M EXCEPT !.g.ofd = @ \o Utf8Lossy(byte), !.g.outcnt = @ + 1]
  ELSE [M EXCEPT !.g.ofd = Append(@, byte), !.g.outcnt = @ + 1]

\* fn put_short                                             (main.rs 1573-1576)
put_short(M, value) == put_byte(put_byte(M, value % 256), (value \div 256) % 256)

BUF_SIZE == 16

\* fn send_bits(value: u16, length: u8)                     (main.rs 1550-1571)
send_bits(M, value, length) ==
  LET buf == BitOr(M.g.bi_buf, Shl(value, M.g.bi_valid % 16, 16))
      Rest(M1) ==
        IF M.g.bi_valid > BUF_SIZE /\ Debug(M)
        THEN Panic(M1, "attempt to subtract with overflow")
        ELSE [M1 EXCEPT
               !.g.bi_buf = Shr(value, (BUF_SIZE - M.g.bi_valid) % 32),
               !.g.bi_valid = (M.g.bi_valid + length - BUF_SIZE) % 256]
  IN IF M.halt # "" THEN M
     ELSE IF M.g.bi_valid + length > 255 /\ Debug(M)
     THEN Panic(M, "attempt to add with overflow")
     ELSE IF M.g.bi_valid >= 16 /\ Debug(M)
     THEN Panic(M, "attempt to shift left with overflow")
     ELSE IF (M.g.bi_valid + length) % 256 >= BUF_SIZE
     THEN Rest(put_short([M EXCEPT !.g.bi_buf = buf], buf))
     ELSE [M EXCEPT !.g.bi_buf = buf, !.g.bi_valid = M.g.bi_valid + length]

\* fn bi_windup                                             (main.rs 1578-1586)
bi_windup(M) ==
  LET Clear(M1) == [M1 EXCEPT !.g.bi_buf = 0, !.g.bi_valid = 0]
  IN IF M.halt # "" THEN M
     ELSE Clear(IF M.g.bi_valid > 8 THEN put_short(M, M.g.bi_buf)
                ELSE IF M.g.bi_valid > 0 THEN put_byte(M, M.g.bi_buf % 256)
                ELSE M)

(***************************************************************************)
(* trees.rs: constants, the Trees struct, ct_init.                         *)
(***************************************************************************)
MAX_BITS == 15
MAX_BL_BITS == 7
LENGTH_CODES == 29
LITERALS == 256
LIT_BUFSIZE == 32768
DIST_BUFSIZE == 32768
L_CODES == LITERALS + 1 + LENGTH_CODES
D_CODES == 30
BL_CODES == 19
HEAP_SIZE == 2 * L_CODES + 1
END_BLOCK == 256
STORED_BLOCK == 0
STATIC_TREES == 1
DYN_TREES == 2
SMALLEST == 1
REP_3_6 == 16
REPZ_3_10 == 17
REPZ_11_138 == 18
STORED == 0
DEFLATED == 8
MIN_MATCH == 3
MAX_MATCH == 258
MAX_DIST == 16384

\* the constant tables, indexed from 0 as in the source
EXTRA_LBITS ==
  [k \in 0..28 |-> <<0,0,0,0,0,0,0,0,1,1,1,1,2,2,2,2,3,3,3,3,4,4,4,4,5,5,5,5,0>>[k + 1]]

EXTRA_DBITS ==
  [k \in 0..29 |->
    <<0,0,0,0,1,1,2,2,3,3,4,4,5,5,6,6,7,7,8,8,9,9,10,10,11,11,12,12,13,13>>[k + 1]]

EXTRA_BLBITS == [k \in 0..18 |-> <<0,0,0,0,0,0,0,0,0,0,0,0,0,0,0,0,2,3,7>>[k + 1]]

BL_ORDER == [k \in 0..18 |-> <<16,17,18,0,8,7,9,6,10,5,11,4,12,3,13,2,14,1,15>>[k + 1]]

\* struct CtData; a Vec<CtData> is a sequence, entry n of the source at n + 1
CtZero == [freq |-> 0, len |-> 0, code |-> 0, dad |-> 0]

CtVec(n) == [k \in 1..n |-> CtZero]

\* Trees::new.  An Rc<RefCell<Vec<CtData>>> is named by the field of Trees
\* that holds it, so a TreeDesc's dyn_tree is the name of the shared vector.
Trees_new ==
  [ file_method |-> 0, compressed_len |-> U64(0), input_len |-> 0,
    base_length |-> [k \in 0..(LENGTH_CODES - 1) |-> 0],
    base_dist |-> [k \in 0..(D_CODES - 1) |-> 0],
    length_code |-> [k \in 0..255 |-> 0],
    dist_code |-> [k \in 0..511 |-> 0],
    bl_count |-> [k \in 0..MAX_BITS |-> 0],
    static_ltree |-> CtVec(L_CODES + 2),
    static_dtree |-> CtVec(D_CODES),
    bltree |-> CtVec(2 * BL_CODES + 1),
    dyn_ltree |-> CtVec(HEAP_SIZE),
    dyn_dtree |-> CtVec(2 * D_CODES + 1),
    bl_tree |-> CtVec(2 * BL_CODES + 1),
    opt_len |-> U64(0), static_len |-> U64(0),
    last_lit |-> 0, last_dist |-> 0, last_flags |-> 0, flags |-> 0, flag_bit |-> 1,
    l_buf |-> <<>>, d_buf |-> <<>>, flag_buf |-> <<>>,
    l_desc |-> [dyn_tree |-> "dyn_ltree", static_tree |-> "static_ltree",
                extra_bits |-> EXTRA_LBITS, extra_base |-> LITERALS + 1,
                elems |-> L_CODES, max_length |-> MAX_BITS, max_code |-> 0],
    d_desc |-> [dyn_tree |-> "dyn_dtree", static_tree |-> "static_dtree",
                extra_bits |-> EXTRA_DBITS, extra_base |-> 0,
                elems |-> D_CODES, max_length |-> MAX_BITS, max_code |-> 0],
    bl_desc |-> [dyn_tree |-> "bltree", static_tree |-> "None",
                 extra_bits |-> EXTRA_BLBITS, extra_base |-> 0,
                 elems |-> BL_CODES, max_length |-> MAX_BL_BITS, max_code |-> 0],
    heap |-> [k \in 0..(2 * L_CODES) |-> 0],
    depth |-> [k \in 0..(2 * L_CODES) |-> 0],
    heap_len |-> 0, heap_max |-> 0 ]

\* fn bi_reverse(code: u16, len) -> u16                      (trees.rs 320-328)
RECURSIVE bi_reverse_from(_, _, _)
bi_reverse_from(code, len, res) ==
  IF len = 0 THEN res
  ELSE bi_reverse_from(code \div 2, len - 1, ((res * 2) % 65536) + (code % 2))

bi_reverse(code, len) == bi_reverse_from(code, len, 0)

\* gen_codes, first loop: next_code[bits]                    (trees.rs 305-308)
RECURSIVE gen_next_code(_, _)
gen_next_code(bl_count, bits) ==
  IF bits = 0 THEN 0
  ELSE ((gen_next_code(bl_count, bits - 1) + bl_count[bits - 1]) * 2) % 65536

\* fn gen_codes(bl_count, tree, max_code)                    (trees.rs 300-318)
\* The result is [tree, halt]: indexing next_code with a length above
\* MAX_BITS is out of bounds.
gen_codes(bl_count, tree, max_code, build) ==
  LET s0 == [n |-> 0, tree |-> tree, halt |-> "",
             next_code |-> [b \in 0..MAX_BITS |-> gen_next_code(bl_count, b)]]
      C(s) == s.n < max_code /\ s.halt = ""
      F(s) ==
        LET len == s.tree[s.n + 1].len
        IN IF len = 0 THEN [s EXCEPT !.n = @ + 1]
           ELSE IF len > MAX_BITS
           THEN [s EXCEPT !.halt = "panic: index out of bounds (next_code)"]
           ELSE IF s.next_code[len] = 65535 /\ build = "debug"
           THEN [s EXCEPT !.halt = "panic: attempt to add with overflow"]
           ELSE [s EXCEPT !.n = @ + 1,
                          !.tree[s.n + 1].code = bi_reverse(s.next_code[len], len),
                          !.next_code[len] = (@ + 1) % 65536]
      Out(s1) == [tree |-> s1.tree, halt |-> s1.halt]
  IN Out(While(C, F, 9, s0))

\* fn init_block                                             (trees.rs 280-298)
init_block(M) ==
  [M EXCEPT
    !.t.dyn_ltree = SeqOf([k \in DOMAIN @ |->
       IF k - 1 = END_BLOCK THEN [@[k] EXCEPT !.freq = 1]
       ELSE IF k - 1 < L_CODES THEN [@[k] EXCEPT !.freq = 0] ELSE @[k]]),
    !.t.dyn_dtree = SeqOf([k \in DOMAIN @ |->
       IF k - 1 < D_CODES THEN [@[k] EXCEPT !.freq = 0] ELSE @[k]]),
    !.t.bl_tree = SeqOf([k \in DOMAIN @ |->
       IF k - 1 < BL_CODES THEN [@[k] EXCEPT !.freq = 0] ELSE @[k]])]

\* ct_init, the loop over the length codes                   (trees.rs 195-210)
ct_init_length ==
  LET C(s) == s.code < LENGTH_CODES - 1
      F(s) == LET w == Pow2(EXTRA_LBITS[s.code])
              IN [code |-> s.code + 1, length |-> s.length + w,
                  base_length |-> [s.base_length EXCEPT ![s.code] = s.length],
                  length_code |-> [k \in 0..255 |->
                     IF s.length <= k /\ k < s.length + w THEN s.code
                     ELSE s.length_code[k]]]
  IN While(C, F, 5, [code |-> 0, length |-> 0,
                     base_length |-> [k \in 0..(LENGTH_CODES - 1) |-> 0],
                     length_code |-> [k \in 0..255 |-> 0]])

\* ct_init, the two loops over the distance codes            (trees.rs 213-238)
ct_init_dist ==
  LET C1(s) == s.code < 16
      F1(s) == LET w == Pow2(EXTRA_DBITS[s.code])
               IN [code |-> s.code + 1, dist |-> s.dist + w,
                   base_dist |-> [s.base_dist EXCEPT ![s.code] = s.dist],
                   dist_code |-> [k \in 0..511 |->
                      IF s.dist <= k /\ k < s.dist + w THEN s.code ELSE s.dist_code[k]]]
      C2(s) == s.code < D_CODES
      F2(s) == LET w == Pow2(EXTRA_DBITS[s.code] - 7)
               IN [code |-> s.code + 1, dist |-> s.dist + w,
                   base_dist |-> [s.base_dist EXCEPT ![s.code] = s.dist * 128],
                   dist_code |-> [k \in 0..511 |->
                      IF 256 + s.dist <= k /\ k < 256 + s.dist + w THEN s.code
                      ELSE s.dist_code[k]]]
      Both(s) == [first |-> s, second |-> While(C2, F2, 5, [s EXCEPT !.dist = s.dist \div 128])]
  IN Both(While(C1, F1, 5, [code |-> 0, dist |-> 0,
                            base_dist |-> [k \in 0..(D_CODES - 1) |-> 0],
                            dist_code |-> [k \in 0..511 |-> 0]]))

\* fn ct_init                                                (trees.rs 179-278)
ct_init(M, methodp) ==
  LET blc == [b \in 0..MAX_BITS |->
                IF b = 7 THEN 24 ELSE IF b = 8 THEN 152
                ELSE IF b = 9 THEN 112 ELSE 0]
      lens(M0) == [k \in 1..(L_CODES + 2) |->
                    [M0.t.static_ltree[k] EXCEPT !.len =
                       IF k - 1 <= 143 THEN 8 ELSE IF k - 1 <= 255 THEN 9
                       ELSE IF k - 1 <= 279 THEN 7 ELSE 8]]
      Set(M0, L, D, gc) ==
        [M0 EXCEPT
          !.t.base_length = L.base_length,
          !.t.length_code = [L.length_code EXCEPT ![255] = LENGTH_CODES - 1],
          !.t.base_dist = D.base_dist,
          !.t.dist_code = D.dist_code,
          !.t.bl_count = blc,
          !.t.static_ltree = gc.tree,
          !.t.static_dtree = [k \in 1..D_CODES |->
             [@[k] EXCEPT !.len = 5, !.code = bi_reverse(k - 1, 5)]],
          !.halt = gc.halt]
      Fin(M1) == IF M1.halt # "" THEN M1 ELSE init_block(M1)
      Check(M0, L, D) ==
        IF M0.t.static_dtree[1].len # 0 THEN M0
        ELSE IF L.length # 256 THEN Panic(M0, "ct_init: length != 256")
        ELSE IF D.first.dist # 256 THEN Panic(M0, "ct_init: dist != 256")
        ELSE IF D.second.dist # 256 THEN Panic(M0, "ct_init: 256+dist != 512")
        ELSE Fin(Set(M0, L, D.second, gen_codes(blc, lens(M0), L_CODES + 1, M.build)))
  IN IF M.halt # "" THEN M
     ELSE Check([M EXCEPT !.t.file_method = methodp, !.t.compressed_len = U64(0),
                          !.t.input_len = 0],
                ct_init_length, ct_init_dist)

(***************************************************************************)
(* trees.rs: tallying the tokens.                                          *)
(***************************************************************************)
\* a u16 counter incremented by n: [v, ovf]
U16Add(v, n) == [v |-> (v + n) % 65536, ovf |-> v + n > 65535]

\* fn d_code                                                 (trees.rs 399-405)
d_code(t, dist) ==
  IF dist < 256 THEN t.dist_code[dist] ELSE t.dist_code[256 + Shr(dist, 7)]

\* tree[n].freq += 1 on the shared vector called name; overflow panics in a
\* debug build and wraps in a release build
FreqInc(M, name, n) ==
  LET a == U16Add(M.t[name][n + 1].freq, 1)
  IN IF M.halt # "" THEN M
     ELSE IF n >= Len(M.t[name]) THEN Panic(M, "index out of bounds (tree)")
     ELSE IF a.ovf /\ Debug(M) THEN Panic(M, "attempt to add with overflow")
     ELSE [M EXCEPT !.t[name][n + 1].freq = a.v]

\* ct_tally, the block-end heuristic                         (trees.rs 367-393)
RECURSIVE ct_tally_out_length(_, _)
ct_tally_out_length(t, dcode) ==
  IF dcode = 0 THEN t.last_lit * 8
  ELSE ct_tally_out_length(t, dcode - 1)
         + t.dyn_dtree[dcode].freq * (5 + EXTRA_DBITS[dcode - 1])

\* fn ct_tally(dist, lc) -> bool                             (trees.rs 330-397)
ct_tally(M, dist, lc) ==
  LET Lit(N) == [N EXCEPT !.t.l_buf = ArrSet(@, N.t.last_lit, lc % 256),
                          !.t.last_lit = @ + 1]
      Dist(B) ==
        IF B.halt # "" THEN B
        ELSE IF B.t.last_dist >= DIST_BUFSIZE
        THEN Panic(B, "index out of bounds (d_buf)")
        ELSE [B EXCEPT !.t.d_buf = ArrSet(@, B.t.last_dist, (dist - 1) % 65536),
                       !.t.last_dist = @ + 1,
                       !.t.flags = BitOr(@, B.t.flag_bit)]
      Freq(M1) ==
        IF dist = 0 THEN FreqInc(M1, "dyn_ltree", lc)
        ELSE IF ~(dist - 1 < MAX_DIST /\ lc <= MAX_MATCH - MIN_MATCH
                  /\ d_code(M1.t, dist - 1) < D_CODES)
        THEN Panic(M1, "ct_tally: bad match")
        ELSE Dist(FreqInc(FreqInc(M1, "dyn_ltree", M1.t.length_code[lc] + LITERALS + 1),
                          "dyn_dtree", d_code(M1.t, dist - 1)))
      Flags(M3) ==
        IF M3.t.last_lit % 8 # 0 THEN M3
        ELSE IF M3.t.last_flags >= LIT_BUFSIZE \div 8
        THEN Panic(M3, "index out of bounds (flag_buf)")
        ELSE [M3 EXCEPT !.t.flag_buf = ArrSet(@, M3.t.last_flags, M3.t.flags),
                        !.t.last_flags = @ + 1, !.t.flags = 0, !.t.flag_bit = 1]
      Full(M4) == Ret(M4, M4.t.last_lit = LIT_BUFSIZE - 1 \/ M4.t.last_dist = DIST_BUFSIZE)
      Heur(M4, in_length) ==
        IF in_length < 0 /\ Debug(M4)
        THEN Panic(M4, "attempt to subtract with overflow")
        ELSE IF M4.t.last_dist < M4.t.last_lit \div 2
                  /\ (in_length < 0
                      \/ Shr(ct_tally_out_length(M4.t, D_CODES), 3) < in_length \div 2)
        THEN Ret(M4, TRUE)
        ELSE Full(M4)
      End(M4) ==
        IF M4.halt # "" THEN M4
        ELSE IF M4.g.level > 2 /\ M4.t.last_lit % 4096 = 0
        THEN Heur(M4, M4.d.strstart - M4.d.block_start)
        ELSE Full(M4)
      Bit(M2) ==
        IF M2.halt # "" THEN M2
        ELSE End(Flags([M2 EXCEPT !.t.flag_bit = @ * 2]))
  IN IF M.halt # "" THEN M
     ELSE IF M.t.last_lit >= LIT_BUFSIZE THEN Panic(M, "index out of bounds (l_buf)")
     ELSE Bit(Freq(Lit(M)))

(***************************************************************************)
(* trees.rs: building a Huffman tree.  While build_tree runs, the fields   *)
(* heap, depth, heap_len, heap_max, bl_count, opt_len, static_len and the  *)
(* tree vector are gathered in a record s, with s.max_code and s.node the  *)
(* locals of build_tree and s.halt a panic met on the way.                 *)
(***************************************************************************)
\* fn smaller                                              (trees.rs 1033-1036)
smaller(s, n, m) ==
  s.tree[n + 1].freq < s.tree[m + 1].freq
    \/ (s.tree[n + 1].freq = s.tree[m + 1].freq /\ s.depth[n] <= s.depth[m])

\* fn pq_down_heap                                          (trees.rs 999-1029)
pq_down_heap(s, k0) ==
  LET v == s.heap[k0]
      C(q) == ~q.done
      F(q) ==
        LET j0 == 2 * q.k + 1
            j == IF j0 + 1 < s.heap_len
                    /\ smaller(s, q.heap[j0 + 1], q.heap[j0])
                 THEN j0 + 1 ELSE j0
        IN IF j0 >= s.heap_len THEN [q EXCEPT !.done = TRUE]
           ELSE IF smaller(s, v, q.heap[j]) THEN [q EXCEPT !.done = TRUE]
           ELSE [q EXCEPT !.heap[q.k] = q.heap[j], !.k = j]
      Put(q1) == [s EXCEPT !.heap = [q1.heap EXCEPT ![q1.k] = v]]
  IN Put(While(C, F, 4, [heap |-> s.heap, k |-> k0, done |-> FALSE]))

\* fn pq_remove: the result is in s.ret                      (trees.rs 852-864)
pq_remove(s) ==
  LET top == s.heap[SMALLEST]
      s1 == [s EXCEPT !.heap[SMALLEST] = s.heap[s.heap_len - 1], !.heap_len = @ - 1]
  IN [pq_down_heap(s1, SMALLEST) EXCEPT !.ret = top]

\* fn adjust_bit_lengths: the new bl_count                   (trees.rs 935-963)
adjust_bit_lengths(bl_count, overflow, max_length) ==
  LET C(q) == ~q.done
      F(q) ==
        LET bits == CHOOSE b \in (0 - 1)..(max_length - 1) :
                      /\ b >= 0 => q.bl_count[b] # 0
                      /\ \A c \in (b + 1)..(max_length - 1) : q.bl_count[c] = 0
        IN IF bits < 0 THEN [q EXCEPT !.done = TRUE, !.halt = "panic: index out of bounds (bl_count)"]
           ELSE [bl_count |-> FnOf([b \in DOMAIN q.bl_count |->
                    q.bl_count[b] + (IF b = bits + 1 THEN 2 ELSE 0)
                      - (IF b = bits THEN 1 ELSE 0) - (IF b = max_length THEN 1 ELSE 0)]),
                 overflow |-> q.overflow - 2, done |-> q.overflow - 2 <= 0, halt |-> ""]
  IN While(C, F, 9, [bl_count |-> bl_count, overflow |-> overflow, done |-> FALSE, halt |-> ""])

\* fn recompute_bit_lengths                                  (trees.rs 966-994)
recompute_bit_lengths(s, max_length) ==
  LET C(q) == q.bits >= 1 /\ q.s.halt = ""
      F(q) ==
        IF q.i >= q.s.bl_count[q.bits] THEN [q EXCEPT !.bits = @ - 1, !.i = 0]
        ELSE IF q.h = 0 THEN [q EXCEPT !.s.halt = "panic: attempt to subtract with overflow"]
        ELSE
          LET m == q.s.heap[q.h - 1]
              old == q.s.tree[m + 1].len
              q1 == [q EXCEPT !.h = @ - 1, !.i = @ + 1]
          IN IF m > q.s.max_code \/ old = q.bits THEN q1
             ELSE IF q.bits < old /\ q.s.build = "debug"
             THEN [q1 EXCEPT !.s.halt = "panic: attempt to subtract with overflow"]
             ELSE [q1 EXCEPT
                    !.s.opt_len = U64Norm(@.h, @.r + (q.bits - old) * q.s.tree[m + 1].freq),
                    !.s.tree[m + 1].len = q.bits]
  IN While(C, F, 10, [s |-> s, h |-> s.heap_len, bits |-> max_length, i |-> 0]).s

\* fn gen_bitlen                                             (trees.rs 874-932)
gen_bitlen(s, desc) ==
  LET s0 == [s EXCEPT !.bl_count = [b \in 0..MAX_BITS |-> 0],
                      !.tree[s.heap[s.heap_max] + 1].len = 0]
      C(q) == q.h < q.s.heap_len /\ q.s.halt = ""
      F(q) ==
        LET n == q.s.heap[q.h]
            b0 == (q.s.tree[q.s.tree[n + 1].dad + 1].len + 1) % 65536
            bits == IF b0 > desc.max_length THEN desc.max_length ELSE b0
            xbits == IF n >= desc.extra_base THEN desc.extra_bits[n - desc.extra_base] ELSE 0
            f == q.s.tree[n + 1].freq
            q1 == [q EXCEPT !.h = @ + 1, !.s.tree[n + 1].len = bits,
                            !.overflow = @ + (IF b0 > desc.max_length THEN 1 ELSE 0)]
        IN IF n > s.max_code THEN q1
           ELSE [q1 EXCEPT
                  !.s.bl_count[bits] = @ + 1,
                  !.s.opt_len = U64Norm(@.h, @.r + f * (bits + xbits)),
                  !.s.static_len = IF desc.static_tree = "None" THEN @
                     ELSE U64Norm(@.h, @.r + f * (q.s.stree[n + 1].len + xbits))]
      Adjusted(q2, adj) ==
        IF adj.halt # "" THEN [q2.s EXCEPT !.halt = adj.halt]
        ELSE recompute_bit_lengths([q2.s EXCEPT !.bl_count = adj.bl_count],
                                   desc.max_length)
      Over(q2) ==
        IF q2.overflow = 0 \/ q2.s.halt # "" THEN q2.s
        ELSE Adjusted(q2, adjust_bit_lengths(q2.s.bl_count, q2.overflow, desc.max_length))
  IN Over(While(C, F, 10, [s |-> s0, h |-> s.heap_max + 1, overflow |-> 0]))

\* build_tree, the initial heap                              (trees.rs 774-786)
build_tree_heap(s, elems) ==
  LET nz == {n \in 0..(elems - 1) : s.tree[n + 1].freq # 0}
      rank(n) == Cardinality({m \in nz : m <= n})
  IN [s EXCEPT
       !.heap_len = Cardinality(nz),
       !.heap_max = HEAP_SIZE,
       !.heap = FnOf([k \in DOMAIN s.heap |->
                   IF k >= 1 /\ k <= Cardinality(nz)
                   THEN CHOOSE n \in nz : rank(n) = k ELSE s.heap[k]]),
       !.max_code = IF nz = {} THEN 0 - 1 ELSE CHOOSE n \in nz : \A m \in nz : m <= n,
       !.depth = FnOf([n \in DOMAIN s.depth |-> IF n \in nz THEN 0 ELSE s.depth[n]]),
       !.tree = SeqOf([k \in DOMAIN s.tree |->
                   IF k - 1 < elems /\ s.tree[k].freq = 0 THEN [s.tree[k] EXCEPT !.len = 0]
                   ELSE s.tree[k]])]

\* build_tree, forcing two codes of non-zero frequency       (trees.rs 792-805)
build_tree_force(s, desc) ==
  LET C(q) == q.heap_len < 2
      F(q) ==
        LET new_node == IF q.max_code + 1 < 2 THEN q.max_code + 1 ELSE 0
        IN [q EXCEPT !.max_code = @ + 1, !.heap_len = @ + 1,
                     !.heap[q.heap_len + 1] = new_node,
                     !.tree[new_node + 1].freq = 1,
                     !.depth[new_node] = 0,
                     !.opt_len = U64Sub(@, 1),
                     !.static_len = IF desc.static_tree = "None" THEN @
                                    ELSE U64Sub(@, q.stree[new_node + 1].len)]
  IN While(C, F, 1, s)

\* build_tree, combining the two least frequent nodes        (trees.rs 814-841)
build_tree_combine(s) ==
  LET C(q) == ~q.done /\ q.halt = ""
      Join(q, r, n, m, f) ==
        [r EXCEPT
           !.heap_max = @ - 2,
           !.heap[r.heap_max - 1] = n,
           !.heap[r.heap_max - 2] = m,
           !.tree[q.node + 1].freq = f.v,
           !.tree[n + 1].dad = q.node,
           !.tree[m + 1].dad = q.node,
           !.depth[q.node] = Max(r.depth[n], r.depth[m]) + 1,
           !.heap[SMALLEST] = q.node]
      Step(r4) == [r4 EXCEPT !.node = @ + 1, !.done = r4.heap_len < 2]
      Sum(q, r, n, m, f) ==
        IF f.ovf /\ q.build = "debug"
        THEN [r EXCEPT !.halt = "panic: attempt to add with overflow"]
        ELSE Step(pq_down_heap(Join(q, r, n, m, f), SMALLEST))
      Pair(q, r, n, m) ==
        Sum(q, r, n, m, U16Add(r.tree[n + 1].freq, r.tree[m + 1].freq))
      Took(q, r) == Pair(q, r, r.ret, r.heap[SMALLEST])
      F(q) == Took(q, pq_remove(q))
      Last(s1) ==
        IF s1.halt # "" THEN s1
        ELSE [s1 EXCEPT !.heap_max = @ - 1,
                        !.heap[s1.heap_max - 1] = s1.heap[SMALLEST]]
  IN Last(While(C, F, 9, [s EXCEPT !.done = FALSE]))

\* fn build_tree(desc).  desc is the clone the caller made of l_desc, d_desc
\* or bl_desc; M.ret is the max_code written to that clone.  (trees.rs 763-848)
build_tree(M, desc) ==
  LET s0 == [heap |-> M.t.heap, depth |-> M.t.depth, heap_len |-> 0,
             heap_max |-> HEAP_SIZE, bl_count |-> M.t.bl_count,
             opt_len |-> M.t.opt_len, static_len |-> M.t.static_len,
             tree |-> M.t[desc.dyn_tree],
             stree |-> IF desc.static_tree = "None" THEN <<>> ELSE M.t[desc.static_tree],
             max_code |-> 0 - 1, node |-> desc.elems, halt |-> "", ret |-> 0,
             done |-> FALSE, build |-> M.build]
      C(q) == q.n >= 1
      F(q) == [n |-> q.n - 1, s |-> pq_down_heap(q.s, q.n)]
      Heapify(s1) == While(C, F, 9, [n |-> s1.heap_len \div 2, s |-> s1]).s
      Lengths(s3) == IF s3.halt # "" THEN s3 ELSE gen_bitlen(s3, desc)
      Coded(s4, gc) == [s4 EXCEPT !.tree = gc.tree, !.halt = gc.halt]
      Codes(s4) ==
        IF s4.halt # "" THEN s4
        ELSE Coded(s4, gen_codes(s4.bl_count, s4.tree, s4.max_code, M.build))
      Store(s5) ==
        [M EXCEPT !.t.heap = s5.heap, !.t.depth = s5.depth,
                  !.t.heap_len = s5.heap_len, !.t.heap_max = s5.heap_max,
                  !.t.bl_count = s5.bl_count, !.t.opt_len = s5.opt_len,
                  !.t.static_len = s5.static_len, !.t[desc.dyn_tree] = s5.tree,
                  !.halt = s5.halt, !.ret = s5.max_code]
  IN IF M.halt # "" THEN M
     ELSE Store(Codes(Lengths(build_tree_combine(Heapify(
            build_tree_force(build_tree_heap(s0, desc.elems), desc))))))

\* the limits with a run after an equal run allowed 7 lengths, as a first run
RunLimits_seven(curlen, nextlen) ==
  IF nextlen = 0 THEN [max_count |-> 138, min_count |-> 3]
  ELSE [max_count |-> 7, min_count |-> 4]

\* the repeat-count limits chosen after a run of code lengths
\*                                   (trees.rs 613-622 and 1080-1086, 1121-1130)
RunLimits(curlen, nextlen) ==
  IF nextlen = 0 THEN [max_count |-> 138, min_count |-> 3]
  ELSE IF curlen = nextlen THEN [max_count |-> 6, min_count |-> 3]
  ELSE [max_count |-> 7, min_count |-> 4]

\* fn scan_tree(bl_tree, tree, max_code): [bl_tree, tree, halt]
\*                                                         (trees.rs 1072-1133)
scan_tree(bl_tree, tree, max_code, build) ==
  LET tree1 == [tree EXCEPT ![max_code + 2].len = 65535]
      bump(q, c, by) ==
        LET a == U16Add(q.bl_tree[c + 1].freq, by)
        IN IF c >= Len(q.bl_tree) THEN [q EXCEPT !.halt = "panic: index out of bounds (bl_tree)"]
           ELSE IF a.ovf /\ build = "debug"
           THEN [q EXCEPT !.halt = "panic: attempt to add with overflow"]
           ELSE [q EXCEPT !.bl_tree[c + 1].freq = a.v]
      C(q) == q.n <= max_code /\ q.halt = ""
      F(q) ==
        LET curlen == q.nextlen
            nextlen == tree1[q.n + 2].len
            count == q.count + 1
            q1 == IF count < q.min_count THEN bump(q, curlen, count)
                  ELSE IF curlen # 0
                  THEN bump(IF curlen # q.prevlen THEN bump(q, curlen, 1) ELSE q, REP_3_6, 1)
                  ELSE IF count <= 10 THEN bump(q, REPZ_3_10, 1)
                  ELSE bump(q, REPZ_11_138, 1)
        IN IF count < q.max_count /\ curlen = nextlen
           THEN [q EXCEPT !.n = @ + 1, !.nextlen = nextlen, !.count = count]
           ELSE [q1 EXCEPT !.n = @ + 1, !.nextlen = nextlen, !.count = 0,
                           !.prevlen = curlen,
                           !.max_count = RunLimits(curlen, nextlen).max_count,
                           !.min_count = RunLimits(curlen, nextlen).min_count]
      q0 == [n |-> 0, prevlen |-> 0 - 1, nextlen |-> tree[1].len, count |-> 0,
             max_count |-> IF tree[1].len = 0 THEN 138 ELSE 7,
             min_count |-> IF tree[1].len = 0 THEN 3 ELSE 4,
             bl_tree |-> bl_tree, halt |-> ""]
      Out(q2) == [bl_tree |-> q2.bl_tree, tree |-> tree1, halt |-> q2.halt]
  IN IF max_code + 1 >= Len(tree)
     THEN [bl_tree |-> bl_tree, tree |-> tree, halt |-> "panic: Tree array is too small"]
     ELSE Out(While(C, F, 9, q0))

\* build_bl_tree, the number of bit length codes to send  (trees.rs 1053-1060)
RECURSIVE build_bl_tree_index(_, _)
build_bl_tree_index(bl_tree, max_blindex) ==
  IF max_blindex >= 3 /\ bl_tree[BL_ORDER[max_blindex] + 1].len = 0
  THEN build_bl_tree_index(bl_tree, max_blindex - 1)
  ELSE max_blindex

\* fn build_bl_tree -> max_blindex                         (trees.rs 1038-1070)
build_bl_tree(M) ==
  LET Scanned(N, sc, name) ==
        [N EXCEPT !.t.bl_tree = sc.bl_tree, !.t[name] = sc.tree, !.halt = sc.halt]
      Index(M3, max_blindex) ==
        [M3 EXCEPT !.t.opt_len = U64Add(@, U64(3 * (max_blindex + 1) + 5 + 5 + 4)),
                   !.ret = max_blindex]
      Built(M3) ==
        IF M3.halt # "" THEN M3
        ELSE Index(M3, build_bl_tree_index(M3.t.bl_tree, BL_CODES - 1))
      ScanD(M1) ==
        IF M1.halt # "" THEN M1
        ELSE Scanned(M1, scan_tree(M1.t.bl_tree, M1.t.dyn_dtree,
                                   M1.t.d_desc.max_code, M1.build), "dyn_dtree")
  IN IF M.halt # "" THEN M
     ELSE Built(build_tree(
            ScanD(Scanned(M, scan_tree(M.t.bl_tree, M.t.dyn_ltree,
                                       M.t.l_desc.max_code, M.build), "dyn_ltree")),
            M.t.bl_desc))

(***************************************************************************)
(* trees.rs: writing a block.                                              *)
(***************************************************************************)
\* fn send_code                                              (trees.rs 724-732)
send_code(M, c, tree) ==
  IF M.halt # "" THEN M
  ELSE IF c >= Len(tree) THEN Panic(M, "index out of bounds (tree)")
  ELSE send_bits(M, tree[c + 1].code, tree[c + 1].len % 256)

\* send_code(curlen) count times                             (trees.rs 587-589)
RECURSIVE send_code_times(_, _, _, _)
send_code_times(M, c, tree, count) ==
  IF count <= 0 THEN M ELSE send_code_times(send_code(M, c, tree), c, tree, count - 1)

\* fn send_tree(tree, max_code)                              (trees.rs 558-625)
send_tree(M, tree, max_code) ==
  LET blt(N) == N.t.bl_tree
      C(q) == q.n <= max_code /\ q.M.halt = ""
      F(q) ==
        LET curlen == q.nextlen
            nextlen == IF q.n + 1 <= max_code THEN tree[q.n + 2].len ELSE 0 - 1
            count == q.count + 1
            cnt == IF curlen # q.prevlen THEN count - 1 ELSE count
            Rep(A) ==
              IF ~(cnt >= 3 /\ cnt <= 6) THEN Panic(A, "Invalid count for REP_3_6")
              ELSE send_bits(send_code(A, REP_3_6, blt(A)), (cnt - 3) % 65536, 2)
        IN IF count < q.max_count /\ curlen = nextlen
           THEN [q EXCEPT !.n = @ + 1, !.nextlen = nextlen, !.count = count]
           ELSE [q EXCEPT !.n = @ + 1, !.nextlen = nextlen, !.count = 0,
                          !.M = IF count < q.min_count
                                THEN send_code_times(q.M, curlen, blt(q.M), count)
                                ELSE IF curlen # 0
                                THEN Rep(IF curlen # q.prevlen
                                         THEN send_code(q.M, curlen, blt(q.M)) ELSE q.M)
                                ELSE IF count <= 10
                                THEN send_bits(send_code(q.M, REPZ_3_10, blt(q.M)),
                                               count - 3, 3)
                                ELSE send_bits(send_code(q.M, REPZ_11_138, blt(q.M)),
                                               count - 11, 7),
                          !.prevlen = curlen,
                          !.max_count = RunLimits(curlen, nextlen).max_count,
                          !.min_count = RunLimits(curlen, nextlen).min_count]
      q0 == [n |-> 0, prevlen |-> 0 - 1, nextlen |-> tree[1].len, count |-> 0,
             max_count |-> IF tree[1].len = 0 THEN 138 ELSE 7,
             min_count |-> IF tree[1].len = 0 THEN 3 ELSE 4, M |-> M]
  IN IF M.halt # "" THEN M
     ELSE IF max_code >= Len(tree) THEN Panic(M, "index out of bounds (tree)")
     ELSE While(C, F, 9, q0).M

\* send_all_trees, the lengths of the bit length codes       (trees.rs 539-548)
RECURSIVE send_bl_lens(_, _, _)
send_bl_lens(M, rank, blcodes) ==
  IF rank >= blcodes THEN M
  ELSE send_bl_lens(send_bits(M, M.t.bl_tree[BL_ORDER[rank] + 1].len, 3), rank + 1, blcodes)

\* fn send_all_trees(lcodes, dcodes, blcodes)                (trees.rs 517-555)
send_all_trees(M, lcodes, dcodes, blcodes) ==
  IF M.halt # "" THEN M
  ELSE IF ~(lcodes >= 257 /\ dcodes >= 1 /\ blcodes >= 4) THEN Panic(M, "not enough codes")
  ELSE IF ~(lcodes <= L_CODES /\ dcodes <= D_CODES /\ blcodes <= BL_CODES)
  THEN Panic(M, "too many codes")
  ELSE send_tree(
         send_tree(
           send_bl_lens(
             send_bits(send_bits(send_bits(M, lcodes - 257, 5), dcodes - 1, 5),
                       blcodes - 4, 4),
             0, blcodes),
           M.t.dyn_ltree, lcodes - 1),
         M.t.dyn_dtree, dcodes - 1)

\* fn compress_block(ltree, dtree)                           (trees.rs 658-722)
compress_block(M, ltree, dtree) ==
  LET C(q) == q.lx < q.M.t.last_lit /\ q.M.halt = ""
      Extra(A, x, bits) == IF bits # 0 THEN send_bits(A, x % 65536, bits) ELSE A
      F(q) ==
        LET N == q.M
            flag == IF q.lx % 8 = 0 THEN ArrGet(N.t.flag_buf, q.fx) % 256 ELSE q.flag
            fx == IF q.lx % 8 = 0 THEN q.fx + 1 ELSE q.fx
            lc == ArrGet(N.t.l_buf, q.lx)
            code == N.t.length_code[lc]
            dist == ArrGet(N.t.d_buf, q.dx)
            dc == d_code(N.t, dist)
            Dist(D) ==
              IF EXTRA_DBITS[dc] # 0 /\ dist < N.t.base_dist[dc] /\ Debug(N)
              THEN [q EXCEPT !.M = Panic(D, "attempt to subtract with overflow")]
              ELSE [M |-> Extra(D, dist - N.t.base_dist[dc], EXTRA_DBITS[dc]),
                    lx |-> q.lx + 1, dx |-> q.dx + 1, fx |-> fx, flag |-> flag \div 2]
        IN IF q.lx % 8 = 0 /\ q.fx >= LIT_BUFSIZE \div 8
           THEN [q EXCEPT !.M = Panic(N, "index out of bounds (flag_buf)")]
           ELSE IF flag % 2 = 0
           THEN [M |-> send_code(N, lc, ltree), lx |-> q.lx + 1, dx |-> q.dx,
                 fx |-> fx, flag |-> flag \div 2]
           ELSE IF q.dx >= DIST_BUFSIZE
           THEN [q EXCEPT !.M = Panic(N, "index out of bounds (d_buf)")]
           ELSE IF dc >= D_CODES THEN [q EXCEPT !.M = Panic(N, "bad d_code")]
           ELSE Dist(send_code(Extra(send_code(N, code + LITERALS + 1, ltree),
                                     lc - N.t.base_length[code], EXTRA_LBITS[code]),
                               dc, dtree))
  IN IF M.halt # "" THEN M
     ELSE send_code(While(C, F, 15, [M |-> M, lx |-> 0, dx |-> 0, fx |-> 0, flag |-> 0]).M,
                    END_BLOCK, ltree)

\* copy_block, the loop over the bytes of buf                (trees.rs 745-760)
copy_block_bytes(M, buf, len) ==
  IF M.halt # "" THEN M
  ELSE [M EXCEPT !.g.ofd = @ \o [j \in 1..Min(len, Len(buf)) |-> buf[j]],
                 !.g.outcnt = @ + Min(len, Len(buf))]

\* fn copy_block(buf, len, header)                           (trees.rs 734-761)
copy_block(M, buf, len, header) ==
  LET Header(M1) ==
        IF header THEN put_short(put_short(M1, len % 65536), 65535 - (len % 65536))
        ELSE M1
  IN copy_block_bytes(Header(bi_windup(M)), buf, len)

\* The call of flush_block is taken in four steps, so that the trees can be
\* seen as each build_tree leaves them.
\* flush_block, up to the literal tree                       (trees.rs 419-427)
flush_block_l(M) ==
  IF M.halt # "" THEN M
  ELSE IF M.t.last_flags >= LIT_BUFSIZE \div 8 THEN Panic(M, "index out of bounds (flag_buf)")
  ELSE build_tree([M EXCEPT !.t.flag_buf = ArrSet(@, M.t.last_flags, M.t.flags)],
                  M.t.l_desc)

\* flush_block, the distance tree                                (trees.rs 435)
flush_block_d(M) == build_tree(M, M.t.d_desc)

\* flush_block, the bit length tree: M.ret is max_blindex        (trees.rs 444)
flush_block_bl(M) == build_bl_tree(M)

\* what a flush wrote: the kind of block, and the last-block flag of its
\* header (-1 when no header was written)
BlockKind(M, kind, last) == [M EXCEPT !.emitted = Append(@, [kind |-> kind, last |-> last])]

\* the test with the comparison of the sizes left out
whole_stream_stored_any_size(stored_len, opt_lenb, eof, compressed_len) ==
  eof /\ U64Eq(compressed_len, U64(0))

\* stored_len <= opt_lenb && eof && self.compressed_len == 0  (trees.rs 468)
whole_stream_stored(stored_len, opt_lenb, eof, compressed_len) ==
  U64Le(U64(stored_len), opt_lenb) /\ eof /\ U64Eq(compressed_len, U64(0))

\* opt_lenb after `if static_lenb <= opt_lenb { opt_lenb = static_lenb }`
\*                                                   (trees.rs 448-466)
best_lenb(t) ==
  LET static_lenb == U64Shr3(U64Add(t.static_len, U64(10)))
      opt_lenb == U64Shr3(U64Add(t.opt_len, U64(10)))
  IN IF U64Le(static_lenb, opt_lenb) THEN static_lenb ELSE opt_lenb

\* flush_block, choosing the encoding and writing the block  (trees.rs 447-512)
\* buf is [some |-> BOOLEAN, bytes |-> the slice]; M.ret is the value returned
flush_block_emit(M, buf, stored_len, eof, max_blindex) ==
  LET eof_flag == IF eof THEN 1 ELSE 0
      \* x += y on compressed_len
      AddLen(N, y) ==
        IF N.halt # "" THEN N
        ELSE IF U64AddOverflows(N.t.compressed_len, y) /\ Debug(N)
        THEN Panic(N, "attempt to add with overflow")
        ELSE [N EXCEPT !.t.compressed_len = U64Add(@, y)]
      \* 3 + len, then compressed_len += it
      AddLen3(N, len) ==
        IF N.halt # "" THEN N
        ELSE IF U64AddOverflows(U64(3), len) /\ Debug(N)
        THEN Panic(N, "attempt to add with overflow")
        ELSE AddLen(N, U64Add(U64(3), len))
      Raw(M0) ==
        IF ~buf.some THEN gzip_error(M0, "block vanished")
        ELSE [BlockKind(copy_block(M0, buf.bytes, stored_len, FALSE), "raw", -1) EXCEPT
               !.t.compressed_len = U64Shl3(U64(stored_len)),
               !.t.file_method = STORED]
      StoredAt(A) ==
        IF U64AddOverflows(A.t.compressed_len, U64(10)) /\ Debug(A)
        THEN Panic(A, "attempt to add with overflow")
        ELSE BlockKind(
               copy_block(
                 AddLen([A EXCEPT !.t.compressed_len = U64AndNot7(U64Add(@, U64(10)))],
                        U64Shl3(U64(stored_len + 4))),
                 buf.bytes, stored_len, TRUE),
               "stored", eof_flag)
      Stored(M0) == StoredAt(send_bits(M0, (STORED_BLOCK * 2) + eof_flag, 3))
      StaticLen(B) == BlockKind(AddLen3(B, B.t.static_len), "static", eof_flag)
      StaticAt(A) == StaticLen(compress_block(A, A.t.static_ltree, A.t.static_dtree))
      Static(M0) == StaticAt(send_bits(M0, (STATIC_TREES * 2) + eof_flag, 3))
      DynLen(D) == BlockKind(AddLen3(D, D.t.opt_len), "dynamic", eof_flag)
      DynBlock(B) == DynLen(compress_block(B, B.t.dyn_ltree, B.t.dyn_dtree))
      DynAt(A) ==
        DynBlock(send_all_trees(A, A.t.l_desc.max_code + 1, A.t.d_desc.max_code + 1,
                                max_blindex + 1))
      Dyn(M0) == DynAt(send_bits(M0, (DYN_TREES * 2) + eof_flag, 3))
      Choose(M0, static_lenb, opt_lenb) ==
        IF whole_stream_stored(stored_len, opt_lenb, eof, M0.t.compressed_len)
        THEN Raw(M0)
        ELSE IF U64Le(U64(stored_len + 4), opt_lenb) /\ buf.some THEN Stored(M0)
        ELSE IF U64Eq(static_lenb, opt_lenb) THEN Static(M0)
        ELSE Dyn(M0)
      Lens(M0, static_lenb, opt_lenb0) ==
        Choose(M0, static_lenb,
               IF U64Le(static_lenb, opt_lenb0) THEN static_lenb ELSE opt_lenb0)
      Result(M3) == [M3 EXCEPT !.ret = U64Shr3(M3.t.compressed_len)]
      Windup(M2) ==
        IF eof THEN [bi_windup(M2) EXCEPT !.t.compressed_len = U64Add(@, U64(7))]
        ELSE M2
      After(M1) == IF M1.halt # "" THEN M1 ELSE Result(Windup(init_block(M1)))
  IN IF M.halt # "" THEN M
     ELSE IF U64AddOverflows(M.t.opt_len, U64(10)) /\ Debug(M)
     THEN Panic(M, "attempt to add with overflow")
     ELSE After(Lens([M EXCEPT !.t.input_len = @ + stored_len],
                     U64Shr3(U64Add(M.t.static_len, U64(10))),
                     U64Shr3(U64Add(M.t.opt_len, U64(10)))))

(***************************************************************************)
(* deflate.rs: the matcher.                                                *)
(***************************************************************************)
NIL == 0
HASH_BITS == 15
HASH_SIZE == Pow2(15)
WSIZE == 32 * 1024
WMASK == WSIZE - 1
MIN_LOOKAHEAD == 262
HASH_MASK == HASH_SIZE - 1
WINDOW_SIZE == 2 * WSIZE
H_SHIFT == (HASH_BITS + MIN_MATCH - 1) \div MIN_MATCH

\* struct Config and the rows of CONFIGURATION_TABLE          (deflate.rs 19-29)
Config(max_lazy, good_length, nice_length, max_chain) ==
  [max_lazy |-> max_lazy, good_length |-> good_length,
   nice_length |-> nice_length, max_chain |-> max_chain]

CONFIGURATION_TABLE ==
  [l \in 0..9 |->
    << Config(0, 0, 0, 0), Config(4, 4, 8, 4), Config(4, 5, 16, 8),
       Config(4, 6, 32, 32), Config(4, 4, 16, 16), Config(8, 16, 32, 32),
       Config(8, 16, 128, 128), Config(8, 32, 128, 256),
       Config(32, 128, 258, 1024), Config(32, 258, 258, 4096) >>[l + 1]]

\* Deflate::new, and the locals of deflate_fast               (deflate.rs 72-91)
Deflate_new ==
  [ compr_level |-> 0, head |-> EmptyMap, max_lazy_match |-> 0, good_match |-> 0,
    nice_match |-> 0, max_chain_length |-> 0, strstart |-> 0, block_start |-> 0,
    window |-> <<>>, eofile |-> FALSE, lookahead |-> 0, ins_h |-> 0, prev |-> <<>>,
    prev_length |-> 0, match_start |-> 0, max_insert_length |-> 0,
    hash_head |-> NIL, flush |-> FALSE, match_length |-> 0 ]

\* fn update_hash                                          (deflate.rs 141-144)
update_hash(h, c) == BitAnd(BitXor(Shl(h, H_SHIFT, 32), c), HASH_MASK)

\* fn read_buf(state, buf, size) with buf = window[off..]: the file is read
\* in full reads, so the call delivers min(size, what is left of the file).
\* M.ret is the pair returned.                              (deflate.rs 146-160)
read_buf(M, off, size) ==
  LET f == M.g.ifd
      n == Min(size, InLen(f.inp) - f.pos)
      w == M.d.window
      len == Len(w)
  IN IF M.halt # "" THEN M
     ELSE IF ~f.some THEN Ret(M, [n |-> 0, eof |-> TRUE])
     ELSE [M EXCEPT
            !.d.window = SeqOf([k \in 1..Max(len, off + n) |->
                            IF k > off /\ k <= off + n THEN InAt(f.inp, f.pos + k - off - 1)
                            ELSE IF k <= len THEN w[k] ELSE 0]),
            !.g.ifd.pos = @ + n,
            !.g.bytes_in = @ + size,
            !.ret = [n |-> n, eof |-> n = 0]]

\* the slide with the entries below WSIZE left as they are
fill_window_slide_kept(d) ==
  [d EXCEPT
    !.window = SeqOf([k \in 1..Len(d.window) |->
                  IF k <= WSIZE THEN ArrGet(d.window, k - 1 + WSIZE) ELSE d.window[k]]),
    !.strstart = @ - WSIZE,
    !.block_start = @ - WSIZE,
    !.head = FnOf([x \in DOMAIN d.head |->
                    IF d.head[x] >= WSIZE THEN d.head[x] - WSIZE ELSE d.head[x]]),
    !.prev = SeqOf([k \in 1..Len(d.prev) |->
                      IF d.prev[k] >= WSIZE THEN d.prev[k] - WSIZE ELSE d.prev[k]])]

\* fill_window, moving the upper half of the window down    (deflate.rs 164-189)
fill_window_slide(d) ==
  [d EXCEPT
    !.window = SeqOf([k \in 1..Len(d.window) |->
                  IF k <= WSIZE THEN ArrGet(d.window, k - 1 + WSIZE) ELSE d.window[k]]),
    !.strstart = @ - WSIZE,
    !.block_start = @ - WSIZE,
    !.head = FnOf([x \in DOMAIN d.head |->
                    IF d.head[x] >= WSIZE THEN d.head[x] - WSIZE ELSE NIL]),
    !.prev = SeqOf([k \in 1..Len(d.prev) |->
                      IF d.prev[k] >= WSIZE THEN d.prev[k] - WSIZE ELSE NIL])]

\* fn fill_window                                          (deflate.rs 162-203)
fill_window(M) ==
  LET Slide(N) ==
        IF N.d.strstart >= WSIZE + MAX_DIST THEN [N EXCEPT !.d = fill_window_slide(@)]
        ELSE N
      Got(M2) == [M2 EXCEPT !.d.lookahead = @ + M2.ret.n,
                            !.d.eofile = M2.ret.eof \/ M2.ret.n = 0]
      Read(M1, available_space) ==
        IF available_space < 0 THEN Panic(M1, "attempt to subtract with overflow")
        ELSE Got(read_buf(M1, M1.d.strstart + M1.d.lookahead, available_space))
      Space(M1) == Read(M1, (2 * WSIZE) - M1.d.lookahead - M1.d.strstart)
  IN IF M.halt # "" THEN M ELSE Space(Slide(M))

\* while lookahead < MIN_LOOKAHEAD && !eofile { fill_window }
\*                                        (deflate.rs 131-133 and 279-281)
fill_lookahead(M) ==
  LET C(N) == N.d.lookahead < MIN_LOOKAHEAD /\ ~N.d.eofile /\ N.halt = ""
  IN While(C, fill_window, 2, M)

\* fn lm_init(pack_level)                                   (deflate.rs 93-139)
lm_init(M, pack_level) ==
  LET cfg == CONFIGURATION_TABLE[pack_level]
      Conf(N) == [N EXCEPT !.d.compr_level = pack_level, !.d.head = EmptyMap,
                           !.d.max_lazy_match = cfg.max_lazy,
                           !.d.good_match = cfg.good_length,
                           !.d.nice_match = cfg.nice_length,
                           !.d.max_chain_length = cfg.max_chain,
                           !.d.strstart = 0, !.d.block_start = 0]
      Hash(M3) ==
        IF M3.halt # "" THEN M3
        ELSE [M3 EXCEPT !.d.ins_h =
                update_hash(update_hash(0, ArrGet(M3.d.window, 0)), ArrGet(M3.d.window, 1))]
      First(M2) ==
        IF M2.ret.n = 0 THEN [M2 EXCEPT !.d.lookahead = 0, !.d.eofile = TRUE]
        ELSE Hash(fill_lookahead([M2 EXCEPT !.d.lookahead = M2.ret.n, !.d.eofile = FALSE]))
  IN IF M.halt # "" THEN M
     ELSE IF pack_level < 1 \/ pack_level > 9 THEN gzip_error(M, "bad pack level")
     ELSE First(read_buf(Conf(M), 0, 2 * WSIZE))

\* fn insert_string(s): M.ret is the old head of the chain  (deflate.rs 308-316)
insert_string(M, s) ==
  LET ins_h == update_hash(M.d.ins_h, ArrGet(M.d.window, s + MIN_MATCH - 1))
      match_head == MapGet(M.d.head, ins_h)
  IN IF M.halt # "" THEN M
     ELSE IF s + MIN_MATCH - 1 >= WINDOW_SIZE THEN Panic(M, "index out of bounds (window)")
     ELSE [M EXCEPT !.d.ins_h = ins_h,
                    !.d.prev = ArrSet(@, s % WSIZE, match_head),
                    !.d.head = MapSet(@, ins_h, s % 65536),
                    !.ret = match_head]

\* match_extend with the loop written as do { len += 1 } while (...): the
\* byte that ended the comparison is counted as matched
match_extend_eager(window, scan, match_index) ==
  LET C(len) == len < MAX_MATCH
                  /\ ArrGet(window, scan + len) = ArrGet(window, match_index + len)
      F(len) == len + 1
      Past(len) == IF len < MAX_MATCH THEN len + 1 ELSE len
  IN Past(While(C, F, 8, 2))

\* longest_match, the inner loop: the length of the common prefix of the
\* strings at scan and at match_index, from 2 up to MAX_MATCH
\*                                                        (deflate.rs 363-368)
match_extend(window, scan, match_index) ==
  LET C(len) == len < MAX_MATCH
                  /\ ArrGet(window, scan + len) = ArrGet(window, match_index + len)
      F(len) == len + 1
  IN While(C, F, 8, 2)

\* fn longest_match(cur_match): sets match_start, M.ret is best_len
\*                                                        (deflate.rs 318-386)
longest_match(M, cur_match0) ==
  LET d == M.d
      w == d.window
      scan == d.strstart
      limit == IF d.strstart > MAX_DIST THEN d.strstart - MAX_DIST ELSE 0
      chain0 == IF d.prev_length >= d.good_match THEN Shr(d.max_chain_length, 2)
                ELSE d.max_chain_length
      C(q) == q.cur_match > limit /\ q.chain_length # 0 /\ ~q.brk
      F(q) ==
        LET mi == q.cur_match
            next == ArrGet(d.prev, mi % WSIZE)
            q1 == [q EXCEPT !.chain_length = @ - 1]
            Longer(len) ==
              IF len <= q.best_len THEN [q1 EXCEPT !.cur_match = next]
              ELSE IF len >= d.nice_match
              THEN [q1 EXCEPT !.match_start = mi, !.best_len = len, !.brk = TRUE]
              ELSE IF len >= scan + len
              THEN [q1 EXCEPT !.match_start = mi, !.best_len = len, !.cur_match = next,
                              !.scan_end1 = ArrGet(w, scan + len - 1),
                              !.scan_end = ArrGet(w, scan + len)]
              ELSE [q1 EXCEPT !.match_start = mi, !.best_len = len, !.cur_match = next]
        IN IF ArrGet(w, mi + q.best_len) # q.scan_end
              \/ ArrGet(w, mi + q.best_len - 1) # q.scan_end1
              \/ ArrGet(w, mi) # ArrGet(w, scan)
              \/ ArrGet(w, mi + 1) # ArrGet(w, scan + 1)
           THEN [q1 EXCEPT !.cur_match = next]
           ELSE Longer(match_extend(w, scan, mi))
      q0 == [cur_match |-> cur_match0, chain_length |-> chain0,
             best_len |-> d.prev_length, match_start |-> d.match_start,
             scan_end1 |-> ArrGet(w, scan + d.prev_length - 1),
             scan_end |-> ArrGet(w, scan + d.prev_length), brk |-> FALSE]
      Best(q2) == [M EXCEPT !.d.match_start = q2.match_start, !.ret = q2.best_len]
  IN IF M.halt # "" THEN M
     ELSE IF ~(d.strstart <= WINDOW_SIZE - MIN_LOOKAHEAD) THEN Panic(M, "insufficient lookahead")
     ELSE IF scan + d.prev_length < 1 THEN Panic(M, "attempt to subtract with overflow")
     ELSE Best(While(C, F, 12, q0))

\* fn check_match(start, match_pos, length)               (deflate.rs 388-409)
check_match(M, start, match_pos, length) ==
  IF M.halt # "" THEN M
  ELSE IF start + length > WINDOW_SIZE \/ match_pos + length > WINDOW_SIZE
  THEN gzip_error(M, "invalid match")
  ELSE IF \E i \in 0..(length - 1) :
            ArrGet(M.d.window, match_pos + i) # ArrGet(M.d.window, start + i)
  THEN gzip_error(M, "invalid match")
  ELSE M

\* deflate_fast, from the top of the loop to the clamp of match_length
\*                                                        (deflate.rs 222-237)
deflate_fast_find(M) ==
  LET Found(M2, hash_head) ==
        IF M2.halt # "" THEN M2
        ELSE [M2 EXCEPT !.d.hash_head = hash_head,
                        !.d.match_length = Min(M2.ret, M2.d.lookahead)]
      Look(M1, hash_head) ==
        IF M1.halt # "" THEN M1
        ELSE IF hash_head # NIL /\ M1.d.strstart > hash_head
                /\ M1.d.strstart - hash_head <= MAX_DIST
                /\ M1.d.strstart <= WINDOW_SIZE - MIN_LOOKAHEAD
        THEN Found(longest_match(M1, hash_head), hash_head)
        ELSE [M1 EXCEPT !.d.hash_head = hash_head]
      Inserted(M1) == Look(M1, M1.ret)
  IN Inserted(insert_string(M, M.d.strstart))

\* deflate_fast, the else branch after a match: the hash is started again
\* from the three bytes at the new strstart                (deflate.rs 255-265)
deflate_fast_skip(M, match_length) ==
  LET s == M.d.strstart + match_length
      w == M.d.window
  IN IF s + 2 >= WINDOW_SIZE THEN Panic(M, "index out of bounds (window)")
     ELSE [M EXCEPT !.d.strstart = s, !.d.match_length = 0,
                    !.d.ins_h = update_hash(update_hash(ArrGet(w, s), ArrGet(w, s + 1)),
                                            ArrGet(w, s + 2))]

\* deflate_fast, the then branch after a match: the strings of the match
\* are inserted in the dictionary                         (deflate.rs 246-253)
deflate_fast_insert(M, match_length) ==
  LET C(q) == q.match_length # 0 /\ q.M.halt = ""
      Inserted(I) == IF I.halt # "" THEN I ELSE [I EXCEPT !.d.hash_head = I.ret]
      Insert(N) == Inserted(insert_string(N, N.d.strstart))
      F(q) == [match_length |-> q.match_length - 1,
               M |-> Insert([q.M EXCEPT !.d.strstart = @ + 1])]
      End(N) ==
        IF N.halt # "" THEN N ELSE [N EXCEPT !.d.strstart = @ + 1, !.d.match_length = 0]
  IN End(While(C, F, 8, [match_length |-> match_length - 1, M |-> M]).M)

\* deflate_fast, tallying the match or the literal and moving on
\*                                                        (deflate.rs 238-272)
deflate_fast_tally(M) ==
  LET ml == M.d.match_length
      Checked(M1) ==
        IF M1.halt # "" THEN M1
        ELSE IF M.d.strstart < M.d.match_start
        THEN Panic(M1, "attempt to subtract with overflow")
        ELSE M1
      Tallied(M2) ==
        IF M2.halt # "" THEN M2
        ELSE IF M2.d.lookahead < ml THEN Panic(M2, "attempt to subtract with overflow")
        ELSE [M2 EXCEPT !.d.flush = M2.ret, !.d.lookahead = @ - ml]
      Moved(M3) ==
        IF M3.halt # "" THEN M3
        ELSE IF ml <= M.d.max_insert_length THEN deflate_fast_insert(M3, ml)
        ELSE deflate_fast_skip(M3, ml)
      Lit(L2) ==
        IF L2.halt # "" THEN L2
        ELSE [L2 EXCEPT !.d.flush = L2.ret, !.d.lookahead = @ - 1, !.d.strstart = @ + 1]
  IN IF M.halt # "" THEN M
     ELSE IF ml >= MIN_MATCH
     THEN Moved(Tallied(ct_tally(
            Checked(check_match(M, M.d.strstart, M.d.match_start, ml)),
            M.d.strstart - M.d.match_start, ml - MIN_MATCH)))
     ELSE IF M.d.strstart >= WINDOW_SIZE THEN Panic(M, "index out of bounds (window)")
     ELSE Lit(ct_tally(M, 0, ArrGet(M.d.window, M.d.strstart)))

\* fn flush_block_wrapper, the slice and length handed to flush_block
\*                                                        (deflate.rs 287-306)
flush_block_buf(d) ==
  IF d.block_start >= 0
  THEN [some |-> TRUE, stored_len |-> d.strstart - d.block_start,
        valid |-> d.block_start <= d.strstart /\ d.strstart <= WINDOW_SIZE,
        bytes |-> SeqOf([j \in 1..(d.strstart - d.block_start) |->
                           ArrGet(d.window, d.block_start + j - 1)])]
  ELSE [some |-> FALSE, stored_len |-> 0, valid |-> TRUE, bytes |-> <<>>]

(***************************************************************************)
(* main.rs and zip.rs: GzipState and the run of the compressor.            *)
(***************************************************************************)
INBUFSIZ == 32768
INBUF_EXTRA == 64

\* GzipState, the fields the codec uses: the run compresses the file inp at
\* the given level; ofd is what has been written to the output file
GzipState_new(inp, level) ==
  [ level |-> level, method |-> DEFLATED, verbose |-> 0, test |-> FALSE,
    to_stdout |-> FALSE, bytes_in |-> 0, bytes_out |-> 0, insize |-> 0,
    inptr |-> 0, outcnt |-> 0, inbuf |-> <<>>, window |-> <<>>, bi_buf |-> 0,
    bi_valid |-> 0, ifd |-> [some |-> TRUE, inp |-> inp, pos |-> 0], ofd |-> <<>> ]

\* zip, from the initialisation of the codec to the call of deflate: the
\* header bytes of the gzip member are left out               (zip.rs 43-48)
zip_init(M) == lm_init(ct_init(M, M.g.method), M.g.level)

\* fn deflate, and deflate_fast up to its loop  (deflate.rs 205-211, 214-218)
deflate(M) ==
  IF M.halt # "" THEN M
  ELSE IF M.d.compr_level <= 3
  THEN [M EXCEPT !.d.hash_head = NIL, !.d.match_length = 0,
                 !.d.prev_length = MIN_MATCH - 1]
  ELSE Panic(M, "not implemented")

\* zip, after deflate: the crc field and the size field     (zip.rs 83-87)
zip_trailer(M) ==
  LET n == M.g.bytes_in
  IN put_byte(put_byte(put_byte(put_byte(
       put_byte(put_byte(put_byte(put_byte(M, 255), 255), 255), 255),
       n % 256), (n \div 256) % 256), (n \div 65536) % 256), (n \div 16777216) % 256)

(***************************************************************************)
(* The run of the compressor as a state machine.  pc.at is the place of    *)
(* the thread in zip / deflate_fast / flush_block, pc.eof the eof argument *)
(* of the flush_block call under way and pc.max_blindex its local.         *)
(***************************************************************************)
Mach ==
  [d |-> dfl, t |-> trs, g |-> gzs, i |-> ifl, halt |-> halt, ret |-> 0,
   build |-> env.build, emitted |-> obs.emitted]

\* the variables after a step that leaves the machine M and goes to `to`
Goto(M, to, o) ==
  /\ dfl' = M.d
  /\ trs' = M.t
  /\ gzs' = M.g
  /\ ifl' = M.i
  /\ halt' = M.halt
  /\ obs' = [o EXCEPT !.emitted = M.emitted]
  /\ pc' = IF M.halt # "" THEN [pc EXCEPT !.at = "halted"] ELSE to
  /\ UNCHANGED env

At(a) == [pc EXCEPT !.at = a]

\* the top of the loop of deflate_fast: while lookahead != 0, and the call
\* of flush_block_wrapper(eof = true) after it          (deflate.rs 219, 283)
LoopTop(M) ==
  IF M.d.lookahead # 0 THEN At("find") ELSE [At("flush_l") EXCEPT !.eof = TRUE]

Zip ==
  /\ pc.at = "zip"
  /\ Goto(zip_init(Mach), At("deflate"), obs)

Deflate ==
  /\ pc.at = "deflate"
  /\ LET Go(M) == Goto(M, LoopTop(M), obs) IN Go(deflate(Mach))

Find ==
  /\ pc.at = "find"
  /\ Goto(deflate_fast_find(Mach), At("tally"), obs)

Tally ==
  /\ pc.at = "tally"
  /\ LET Go(M) ==
           Goto(M, IF M.d.flush THEN [At("flush_l") EXCEPT !.eof = FALSE] ELSE At("fill"),
                [obs EXCEPT !.tokens = @ + 1,
                            !.matches = @ + (IF dfl.match_length >= MIN_MATCH THEN 1 ELSE 0),
                            !.far = @ + (IF dfl.match_length >= MIN_MATCH
                                            /\ dfl.strstart - dfl.match_start # 1
                                         THEN 1 ELSE 0)])
     IN Go(deflate_fast_tally(Mach))

FlushL ==
  /\ pc.at = "flush_l"
  /\ IF flush_block_buf(dfl).valid
     THEN Goto(flush_block_l(Mach), At("flush_d"), obs)
     ELSE Goto(Panic(Mach, "flush_block_wrapper: Invalid window indices"), pc, obs)

FlushD ==
  /\ pc.at = "flush_d"
  /\ Goto(flush_block_d(Mach), At("flush_bl"), obs)

FlushBl ==
  /\ pc.at = "flush_bl"
  /\ LET Go(M) == Goto(M, [At("flush_emit") EXCEPT !.max_blindex = M.ret], obs)
     IN Go(flush_block_bl(Mach))

\* the end of flush_block and, in deflate_fast, block_start = strstart; after
\* the last block, the trailer of the member     (deflate.rs 274-275, 283)
FlushEmit ==
  /\ pc.at = "flush_emit"
  /\ LET Go(M) ==
           IF pc.eof
           THEN Goto(zip_trailer(M), At("zipped"), [obs EXCEPT !.stream = M.g.ofd])
           ELSE Goto([M EXCEPT !.d.block_start = M.d.strstart], At("fill"), obs)
         Emit(buf) ==
           Go(flush_block_emit(Mach, buf, buf.stored_len, pc.eof, pc.max_blindex))
     IN Emit(flush_block_buf(dfl))

Fill ==
  /\ pc.at = "fill"
  /\ LET Go(M) == Goto(M, LoopTop(M), obs) IN Go(fill_lookahead(Mach))

(***************************************************************************)
(* inflate.rs: tables, the Inflate struct, the bit reader.                 *)
(***************************************************************************)
BMAX == 16
N_MAX == 288

border == [k \in 0..18 |-> <<16,17,18,0,8,7,9,6,10,5,11,4,12,3,13,2,14,1,15>>[k + 1]]

cplens ==
  [k \in 0..30 |->
    <<3,4,5,6,7,8,9,10,11,13,15,17,19,23,27,31,35,43,51,59,67,83,99,115,131,163,
      195,227,258,0,0>>[k + 1]]

cplext ==
  [k \in 0..30 |->
    <<0,0,0,0,0,0,0,0,1,1,1,1,2,2,2,2,3,3,3,3,4,4,4,4,5,5,5,5,0,99,99>>[k + 1]]

cpdist ==
  [k \in 0..29 |->
    <<1,2,3,4,5,7,9,13,17,25,33,49,65,97,129,193,257,385,513,769,1025,1537,2049,
      3073,4097,6145,8193,12289,16385,24577>>[k + 1]]

cpdext ==
  [k \in 0..29 |->
    <<0,0,0,0,1,1,2,2,3,3,4,4,5,5,6,6,7,7,8,8,9,9,10,10,11,11,12,12,13,13>>[k + 1]]

mask_bits == [k \in 0..16 |-> Pow2(k) - 1]

\* struct Huft: v is HuftValue::N(n) or HuftValue::T(table)  (inflate.rs 10-37)
HuftN(n, e, b) == [v |-> [k |-> "N", n |-> n, t |-> <<>>], e |-> e, b |-> b]

HuftT(t, e, b) == [v |-> [k |-> "T", n |-> 0, t |-> t], e |-> e, b |-> b]

\* Option<Box<Huft>>
None == [some |-> FALSE, h |-> HuftN(0, 0, 0)]

Some(h) == [some |-> TRUE, h |-> h]

\* Inflate::new; b, k, w, n, d are the locals of the function that is
\* decoding a block                                       (inflate.rs 121-131)
Inflate_new ==
  [ bb |-> 0, bk |-> 0, wp |-> 0, lbits |-> 9, dbits |-> 6, hufts |-> 0,
    slide |-> <<>>, b |-> 0, k |-> 0, w |-> 0, n |-> 0 ]

\* fn Get_Byte(w): M.ret is the byte.  Past the end of inbuf, fill_inbuf reads
\* the one byte of Cursor::new(vec![0; 1]) into inbuf[0] and Get_Byte
\* delivers 0.                               (inflate.rs 225-236 and 133-156)
Get_Byte(M, w) ==
  IF M.halt # "" THEN M
  ELSE IF M.g.inptr < M.g.insize
  THEN [M EXCEPT !.g.inptr = @ + 1, !.ret = ArrGet(M.g.inbuf, M.g.inptr)]
  ELSE [M EXCEPT !.i.wp = w, !.g.insize = 1, !.g.inbuf = ArrSet(@, 0, 0),
                 !.g.bytes_in = @ + 1, !.g.inptr = 1, !.ret = 0]

\* fn need_bits(k, b, n, w) on the locals M.i.k and M.i.b (inflate.rs 244-253)
\* A k that dump_bits has wrapped below 0 is a huge u32: no byte is needed.
need_bits(M, n) ==
  LET C(N) == N.i.k >= 0 /\ N.i.k < n /\ N.halt = ""
      Byte(N, G) == [G EXCEPT !.i.b = BitOr(@, G.ret * Pow2(N.i.k)), !.i.k = @ + 8]
      F(N) == Byte(N, Get_Byte(N, N.i.w))
  IN While(C, F, 2, M)

\* fn dump_bits(k, b, n)                                  (inflate.rs 256-259)
dump_bits(M, n) ==
  IF M.halt # "" THEN M
  ELSE IF n >= 32 /\ Debug(M) THEN Panic(M, "attempt to shift right with overflow")
  ELSE IF (M.i.k < 0 \/ n <= M.i.k) \/ ~Debug(M)
  THEN [M EXCEPT !.i.b = Shr(@, n % 32), !.i.k = @ - n]
  ELSE Panic([M EXCEPT !.i.b = Shr(@, n % 32)], "attempt to subtract with overflow")

(***************************************************************************)
(* huft_build (inflate.rs 262-396).  The result is                         *)
(*   [ret, t, m, halt]: the returned u32, *t and *m after the call, and    *)
(* the panic if there was one.  c, x, y and a are u32: they are held as    *)
(* signed residues, a negative residue r standing for 2^32 + r.            *)
(***************************************************************************)
\* lines 285-287: c[bit] += 1 for the first n lengths
huft_counts(b, n) ==
  [j \in 0..BMAX |-> Cardinality({q \in 1..Min(n, Len(b)) : b[q] = j})]

\* lines 306-313: for j in k..g { y -= c[j]; y <<= 1 }, from j on
RECURSIVE huft_left(_, _, _, _, _)
huft_left(c, j, g, y, build) ==
  IF j >= g THEN [y |-> y, halt |-> ""]
  ELSE IF y >= 0 /\ y - c[j] < 0 /\ build = "debug"
  THEN [y |-> y, halt |-> "panic: attempt to subtract with overflow"]
  ELSE huft_left(c, j + 1, g, 2 * (y - c[j]), build)

\* lines 322-326: x[i] = c[1] + ... + c[i-1]
RECURSIVE huft_offset(_, _)
huft_offset(c, q) == IF q <= 1 THEN 0 ELSE huft_offset(c, q - 1) + c[q - 1]

\* lines 329-334: v[x[bit]] = i; x[bit] += 1
huft_values(b, n, x0) ==
  LET C(q) == q.j < Min(n, Len(b)) /\ q.halt = ""
      F(q) ==
        LET bit == b[q.j + 1]
            at == q.x[bit]
        IN IF bit = 0 THEN [q EXCEPT !.j = @ + 1]
           ELSE IF at < 0 \/ at >= N_MAX
           THEN [q EXCEPT !.halt = "panic: index out of bounds"]
           ELSE [q EXCEPT !.v[at] = q.j, !.x[bit] = @ + 1, !.j = @ + 1]
  IN While(C, F, 9, [j |-> 0, x |-> x0, v |-> [q \in 0..(N_MAX - 1) |-> 0], halt |-> ""])

\* lines 346-356: while k > w + l { h += 1; w += l; push a table of 1 << z }
huft_tables(q, g, l) ==
  LET C(r) == r.k > r.w + l /\ r.halt = ""
      F(r) ==
        LET w == r.w + l
            z == IF (g - w) < 1 THEN 1 ELSE IF (g - w) > l THEN l ELSE g - w
        IN IF l < 1 THEN [r EXCEPT !.halt = "panic: assertion failed: min <= max"]
           ELSE [r EXCEPT !.h = @ + 1, !.w = w,
                          !.u = Append(@, [q2 \in 1..Pow2(z) |-> HuftN(0, 0, 0)])]
  IN While(C, F, 4, q)

\* lines 358-382: one pass of the body of `while a > 0`
huft_entry(q, x, s, d, e, g, l) ==
  LET Entry(q1) ==
        LET some == q1.p < N_MAX
            val == IF some THEN q1.v[q1.p] ELSE 0
            oob == some /\ val >= s
                     /\ ((val - s) \notin DOMAIN e \/ (val - s) \notin DOMAIN d)
            r == IF ~some THEN HuftN(0, 99, q1.k - q1.w)
                 ELSE IF val < s THEN HuftN(val, IF val < 256 THEN 16 ELSE 15, q1.k - q1.w)
                 ELSE IF oob THEN HuftN(0, 0, 0)
                 ELSE HuftN(d[val - s], e[val - s], q1.k - q1.w)
            f == Pow2(q1.k - q1.w)
            base_index == x[q1.k - q1.w]
            last == q1.u[Len(q1.u)]
            q2 == [q1 EXCEPT !.p = IF some THEN @ + 1 ELSE @, !.a = @ - 1]
        IN IF q1.halt # "" THEN q1
           ELSE IF oob THEN [q1 EXCEPT !.halt = "panic: index out of bounds"]
           ELSE IF Len(q1.u) = 0 THEN q2
           ELSE IF base_index < 0 \/ base_index + f > Len(last)
           THEN [q1 EXCEPT !.halt = "panic: index out of bounds"]
           ELSE [q2 EXCEPT !.u[Len(q1.u)] =
                   SeqOf([c \in 1..Len(last) |->
                            IF c - 1 >= base_index /\ c - 1 < base_index + f
                            THEN r ELSE last[c]])]
  IN Entry(huft_tables(q, g, l))

\* lines 343-384: for k in k..=g { a = c[k]; while a > 0 { ... } }.  Once p
\* is exhausted every further pass of the body writes the same cells, so a
\* wrapped count a (a negative residue) is run for N_MAX + 1 passes.
huft_fill(c, x, v, k0, g, l, s, d, e) ==
  LET count(k) == IF c[k] < 0 THEN N_MAX + 1 ELSE c[k]
      C(q) == q.k <= g /\ q.halt = ""
      F(q) == IF q.a > 0 THEN huft_entry(q, x, s, d, e, g, l)
              ELSE [q EXCEPT !.k = @ + 1, !.a = IF q.k + 1 <= g THEN count(q.k + 1) ELSE 0]
  IN While(C, F, 13,
           [k |-> k0, a |-> count(k0), w |-> 0, h |-> -1, u |-> <<>>, p |-> 0, v |-> v,
            halt |-> ""])

huft_build(b, n, s, d, e, t, m, build) ==
  LET Return(r) == [stop |-> TRUE, out |-> r, c |-> <<>>, x |-> <<>>, v |-> <<>>,
                    y |-> 0, k |-> 0, g |-> 0, l |-> 0]
      Stop(l, why) == Return([ret |-> 0, t |-> t, m |-> l, halt |-> why])
      Values(c, pv, y, k, g, l) ==
        IF pv.halt # "" THEN Stop(l, pv.halt)
        ELSE [stop |-> FALSE, out |-> <<>>, c |-> c, x |-> [pv.x EXCEPT ![0] = 0],
              v |-> pv.v, y |-> y, k |-> k, g |-> g, l |-> l]
      Offsets(c, y, k, g, l) ==
        Values(c, huft_values(b, n, [q \in 0..BMAX |->
                                      IF q = 0 THEN 0 ELSE huft_offset(c, q)]),
               y, k, g, l)
      Left(c0, yl, k, g, l) ==
        IF yl.halt # "" THEN Stop(l, yl.halt)
        ELSE IF yl.y >= 0 /\ yl.y - c0[g] < 0 /\ build = "debug"
        THEN Stop(l, "panic: attempt to subtract with overflow")
        ELSE Offsets([c0 EXCEPT ![g] = @ + (yl.y - c0[g])], yl.y - c0[g], k, g, l)
      Range(c0, k, g) ==
        Left(c0, huft_left(c0, k, g, Pow2(k), build), k, g,
             IF m < k THEN k ELSE IF m > g THEN g ELSE m)
      Counted(c0) ==
        IF c0[0] = n
        THEN Return([ret |-> 0, t |-> Some(HuftT(<<>>, 99, 1)), m |-> 1, halt |-> ""])
        ELSE Range(c0,
                   CHOOSE j \in 0..BMAX : c0[j] # 0 /\ \A q \in 0..(j - 1) : c0[q] = 0,
                   CHOOSE j \in 1..BMAX : c0[j] # 0 /\ \A q \in (j + 1)..BMAX : c0[q] = 0)
      Filled(P, fl) ==
        IF fl.halt # "" THEN [ret |-> 0, t |-> t, m |-> P.l, halt |-> fl.halt]
        ELSE [ret |-> IF P.y # 0 /\ P.g # 1 THEN 1 ELSE 0,
              t |-> IF Len(fl.u) > 0 THEN Some(HuftT(fl.u[Len(fl.u)], 0, 0)) ELSE t,
              m |-> P.l, halt |-> ""]
      Table(P) ==
        IF P.stop THEN P.out
        ELSE Filled(P, huft_fill(P.c, P.x, P.v, P.k, P.g, P.l, s, d, e))
  IN IF \E q \in 1..Min(n, Len(b)) : b[q] > BMAX
     THEN [ret |-> 0, t |-> t, m |-> m, halt |-> "panic: index out of bounds"]
     ELSE Table(Counted(huft_counts(b, n)))

(***************************************************************************)
(* inflate.rs: the block decoders.  b, k, w of the function under way are  *)
(* M.i.b, M.i.k, M.i.w.                                                    *)
(***************************************************************************)
\* fn flush_window                                        (inflate.rs 176-191)
flush_window(M) ==
  IF M.halt # "" \/ M.g.outcnt = 0 THEN M
  ELSE [M EXCEPT
         !.g.ofd = IF M.g.test THEN @
                   ELSE @ \o [q \in 1..M.g.outcnt |-> ArrGet(M.g.window, q - 1)],
         !.g.bytes_out = @ + M.g.outcnt,
         !.g.outcnt = 0]

\* fn flush_output                                        (inflate.rs 194-199)
flush_output(M, w) == flush_window([M EXCEPT !.i.wp = w])

\* let mut b = self.bb; let mut k = self.bk; let mut w = self.wp;
inflate_locals(M) == [M EXCEPT !.i.b = M.i.bb, !.i.k = M.i.bk, !.i.w = M.i.wp]

\* self.wp = w; self.bb = b; self.bk = k;
inflate_restore(M) == [M EXCEPT !.i.wp = M.i.w, !.i.bb = M.i.b, !.i.bk = M.i.k]

\* self.slide[w] = byte; w += 1; if w == WSIZE { flush_output(w); w = 0 }
slide_put(M, byte) ==
  IF M.halt # "" THEN M
  ELSE IF M.i.w >= 2 * WSIZE THEN Panic(M, "index out of bounds")
  ELSE LET Wrap(M1) ==
             IF M1.i.w = WSIZE THEN [flush_output(M1, M1.i.w) EXCEPT !.i.w = 0] ELSE M1
       IN Wrap([M EXCEPT !.i.slide = ArrSet(@, M.i.w, byte), !.i.w = @ + 1])

\* the test with the complement left out: n != (b & 0xffff)
stored_mismatch_plain(n, b) == n # b % 65536

\* n != (!b & 0xffff)                                          (inflate.rs 577)
stored_mismatch(n, b) == n # 65535 - (b % 65536)

\* fn inflate_stored                                      (inflate.rs 555-601)
inflate_stored(M) ==
  LET C(q) == q.i.n > 0 /\ q.halt = ""
      Put(q1) == slide_put(q1, q1.i.b % 256)
      F(q) == [dump_bits(Put(need_bits(q, 8)), 8) EXCEPT !.i.n = @ - 1]
      Copy(M2, n) == While(C, F, 16, [dump_bits(M2, 16) EXCEPT !.i.n = n])
      Check(M2, n) ==
        IF M2.halt # "" THEN M2
        ELSE IF stored_mismatch(n, M2.i.b) THEN Ret(M2, 1)
        ELSE Ret(inflate_restore(Copy(M2, n)), 0)
      Length(M1) == Check(need_bits(dump_bits(M1, 16), 16), M1.i.b % 65536)
      Align(M0) == Length(need_bits(dump_bits(M0, M0.i.k % 8), 16))
  IN Align(inflate_locals(M))

\* while let HuftValue::T(ref table) = t.v { t = &table[index] }
RECURSIVE huft_walk(_, _)
huft_walk(h, index) ==
  IF h.v.k = "N" THEN [ok |-> TRUE, h |-> h]
  ELSE IF index >= Len(h.v.t) THEN [ok |-> FALSE, h |-> h]
  ELSE huft_walk(h.v.t[index + 1], index)

\* lines 517-542: the copy of n bytes from d to w.  q = [M, n, d]
inflate_copy(M, n0, d0) ==
  LET Bytes(q, e) ==
        LET C(r) == r.c > 0 /\ r.M.halt = ""
            F(r) == IF r.d < 0 \/ r.d >= 2 * WSIZE \/ r.M.i.w >= 2 * WSIZE
                    THEN [r EXCEPT !.M = Panic(@, "index out of bounds")]
                    ELSE [r EXCEPT !.M.i.slide = ArrSet(@, r.M.i.w, ArrGet(@, r.d)),
                                   !.M.i.w = @ + 1, !.d = @ + 1, !.c = @ - 1]
            Out(r9) == [q EXCEPT !.M = r9.M, !.d = r9.d]
        IN Out(While(C, F, 9, [M |-> q.M, d |-> q.d, c |-> e]))
      C(q) == q.n > 0 /\ q.M.halt = ""
      Wrap(q2) ==
        IF q2.M.halt = "" /\ q2.M.i.w = WSIZE
        THEN [q2 EXCEPT !.M = [flush_output(@, WSIZE) EXCEPT !.i.w = 0]]
        ELSE q2
      Less(q1, e) == Wrap([q1 EXCEPT !.n = @ - e])
      Part(q, w, e) ==
        Less(IF q.d >= 0 /\ q.d + e <= w /\ w + e > 2 * WSIZE
             THEN [q EXCEPT !.M = Panic(@, "dest is out of bounds")]
             ELSE IF q.d >= 0 /\ q.d + e <= w
             THEN [q EXCEPT
                    !.M.i.slide =
                      LET old == @
                          len == Max(Len(old), w + e)
                      IN SeqOf([c \in 1..len |->
                            IF c - 1 >= w /\ c - 1 < w + e
                            THEN ArrGet(old, q.d + (c - 1 - w))
                            ELSE ArrGet(old, c - 1)]),
                    !.M.i.w = @ + e, !.d = @ + e]
             ELSE Bytes(q, e),
             e)
      \* WSIZE - d and w - d are usize: below 0 they panic or wrap to a
      \* number above any n; with e = 0 the loop `while n > 0` never ends
      F(q) ==
        IF (q.d < 0 \/ q.d > WSIZE) /\ Debug(q.M)
        THEN [q EXCEPT !.M = Panic(@, "attempt to subtract with overflow")]
        ELSE IF q.d = WSIZE
        THEN [q EXCEPT !.M.halt = "hang: while n > 0"]
        ELSE Part(q, q.M.i.w,
                  IF q.d > WSIZE THEN q.n
                  ELSE Min(IF q.d >= 0 THEN WSIZE - q.d ELSE q.M.i.w - q.d, q.n))
  IN While(C, F, 9, [M |-> M, n |-> n0, d |-> d0]).M

\* lines 428-445 and 488-505: while e > 16 { ... }.  The entry the walk
\* ends on holds HuftValue::N, so a link (16 < e < 99) returns 2.
\* The result is M with M.ret = -1 when the loop is left with e <= 16.
inflate_links(M, h) ==
  IF M.halt # "" \/ h.e <= 16 THEN Ret(M, -1)
  ELSE IF h.e = 99 THEN Ret(M, 1)
  ELSE IF h.e - 16 > 16 THEN Panic(M, "index out of bounds")
  ELSE Ret(need_bits(dump_bits(M, h.b), h.e - 16), 2)

\* lines 467-542: a length code h; the distance code and the copy
inflate_match(M, h, td, bd) ==
  LET Copy(M5, n, d) ==
        IF M5.halt # "" THEN M5 ELSE Ret(inflate_copy(M5, n, d), -1)
      Dist(M4, t, n) ==
        Copy(dump_bits(M4, t.e), n, M4.i.w - t.v.n - (M4.i.b % Pow2(t.e)))
      Linked(M3, t, n) ==
        IF M3.halt # "" \/ M3.ret # -1 THEN M3
        ELSE Dist(need_bits(dump_bits(M3, t.b), t.e), t, n)
      Walked(M2, wk, n) ==
        IF ~wk.ok THEN Panic(M2, "index out of bounds")
        ELSE Linked(inflate_links(M2, wk.h), wk.h, n)
      Code(M2, n) ==
        IF M2.halt # "" THEN M2
        ELSE IF ~td.some THEN Ret(M2, 2)
        ELSE Walked(M2, huft_walk(td.h, M2.i.b % Pow2(bd)), n)
      Length(M1) == Code(need_bits(dump_bits(M1, h.e), bd), h.v.n + (M1.i.b % Pow2(h.e)))
  IN Length(need_bits(M, h.e))

\* fn inflate_codes, one pass of its `loop`: M.ret is -1 when the loop goes
\* on, else the value inflate_codes returns           (inflate.rs 414-551)
inflate_codes_token(M, tl, td, bl, bd) ==
  LET Token(M3, t) ==
        IF M3.halt # "" THEN M3
        ELSE IF t.e = 16 THEN Ret(slide_put(M3, t.v.n % 256), -1)
        ELSE IF t.e = 15 THEN Ret(inflate_restore(M3), 0)
        ELSE inflate_match(M3, t, td, bd)
      Linked(M2, t) ==
        IF M2.halt # "" \/ M2.ret # -1 THEN M2 ELSE Token(dump_bits(M2, t.b), t)
      Walked(M1, wk) ==
        IF ~wk.ok THEN Panic(M1, "index out of bounds")
        ELSE Linked(inflate_links(M1, wk.h), wk.h)
      Code(M1) ==
        IF M1.halt # "" THEN M1
        ELSE IF ~tl.some THEN Ret(M1, 2)
        ELSE Walked(M1, huft_walk(tl.h, M1.i.b % Pow2(bl)))
  IN Code(need_bits(M, bl))

\* What a block decoder has when it reaches its call of inflate_codes
\* (M.ret = -1), or when it returns before that (M.ret is the value).
Tables(M, tl, td, bl, bd) == [M |-> M, tl |-> tl, td |-> td, bl |-> bl, bd |-> bd]

\* fn inflate_fixed up to its call of inflate_codes       (inflate.rs 604-645)
inflate_fixed(M) ==
  LET l == [q \in 1..288 |->
              IF q <= 144 THEN 8 ELSE IF q <= 256 THEN 9 ELSE IF q <= 280 THEN 7 ELSE 8]
      Built(rl, rd) ==
        LET Back(N) == Tables(N, rl.t, rd.t, rl.m, rd.m)
        IN IF rl.halt # "" THEN Back([M EXCEPT !.halt = rl.halt])
           ELSE IF rl.ret # 0 THEN Back(Ret(M, rl.ret))
           ELSE IF rd.halt # "" THEN Back([M EXCEPT !.halt = rd.halt])
           ELSE IF rd.ret # 0 THEN Back(Ret(M, rd.ret))
           ELSE Back(Ret(inflate_locals(M), -1))
  IN Built(huft_build(l, 288, 257, cplens, cplext, None, 7, M.build),
           huft_build([q \in 1..30 |-> 5], 30, 0, cpdist, cpdext, None, 5, M.build))

\* lines 692-701: the bit length code lengths, in the order of border
inflate_bit_lengths(M, nb) ==
  LET C(q) == q.j < nb /\ q.M.halt = ""
      Got(q, N) == [q EXCEPT !.M = dump_bits(N, 3), !.ll[border[q.j] + 1] = N.i.b % 8,
                             !.j = @ + 1]
      F(q) == Got(q, need_bits(q.M, 3))
  IN While(C, F, 5, [M |-> M, ll |-> [q \in 1..19 |-> 0], j |-> 0])

\* the test with the count left out: only the place of the first write
repeat_past_first(i, repeat, n) == i >= n

\* if i + repeat > n { return 1 }                  (inflate.rs 758, 769, 781)
repeat_past(i, repeat, n) == i + repeat > n

\* lines 725-794, one pass of `while i < n`: a code of the bit length table
\* and the lengths it stands for.  q = [M, ll, i, l, ret]; q.ret = -1 while
\* no return has been taken; ll is literal_lengths, a vector of n cells.
inflate_lengths_code(q, tl, bl, n) ==
  LET Run(N2, repeat, len) ==
        IF N2.halt # "" THEN [q EXCEPT !.M = N2]
        ELSE IF repeat_past(q.i, repeat, n) THEN [q EXCEPT !.M = N2, !.ret = 1]
        ELSE IF q.i + repeat > n
        THEN [q EXCEPT !.M = Panic(N2, "index out of bounds"),
                       !.ll = SeqOf([c \in 1..n |-> IF c - 1 >= q.i THEN len ELSE q.ll[c]]),
                       !.i = n]
        ELSE [q EXCEPT !.M = N2,
                !.ll = SeqOf([c \in 1..n |-> IF c - 1 >= q.i /\ c - 1 < q.i + repeat
                                             THEN len ELSE q.ll[c]]),
                !.i = @ + repeat, !.l = len]
      Count(N1, bits, base, len) ==
        Run(dump_bits(N1, bits), base + (N1.i.b % Pow2(bits)), len)
      Rep(N, bits, base, len) == Count(need_bits(N, bits), bits, base, len)
      Coded(N2, h) ==
        IF N2.halt # "" THEN [q EXCEPT !.M = N2]
        ELSE IF h.e = 99 THEN [q EXCEPT !.M = N2, !.ret = 2]
        ELSE IF h.v.n < 16
        THEN [q EXCEPT !.M = N2, !.l = h.v.n, !.ll[q.i + 1] = h.v.n, !.i = @ + 1]
        ELSE IF h.v.n = 16 THEN Rep(N2, 2, 3, q.l)
        ELSE IF h.v.n = 17 THEN Rep(N2, 3, 3, 0)
        ELSE IF h.v.n = 18 THEN Rep(N2, 7, 11, 0)
        ELSE [q EXCEPT !.M = N2]
      Walked(N1, wk) ==
        IF ~wk.ok THEN [q EXCEPT !.M = Panic(N1, "index out of bounds")]
        ELSE Coded(dump_bits(N1, wk.h.b), wk.h)
      Code(N1) ==
        IF N1.halt # "" THEN [q EXCEPT !.M = N1]
        ELSE Walked(N1, huft_walk(tl.h, N1.i.b % Pow2(bl)))
  IN Code(need_bits(q.M, bl))

\* lines 718-794: the literal/length and distance code lengths
inflate_lengths(M, tl, bl, n) ==
  LET C(q) == q.i < n /\ q.M.halt = "" /\ q.ret = -1
      F(q) == inflate_lengths_code(q, tl, bl, n)
  IN While(C, F, 9, [M |-> M, ll |-> [c \in 1..n |-> 0], i |-> 0, l |-> 0, ret |-> -1])

\* the literal/length table of a dynamic block: tl holds the bit length
\* table when huft_build is called                       (inflate.rs 806-815)
dynamic_literal_table(ll, nl, tl, lbits, build) ==
  huft_build(ll, nl, 257, cpdist, cpdext, tl, lbits, build)

\* the distance table of a dynamic block                  (inflate.rs 817-826)
dynamic_distance_table(ll, nl, nd, dbits, build) ==
  huft_build(SubSeq(ll, nl + 1, nl + nd), nd, 0, cpdist, cpdext, None, dbits, build)

\* fn inflate_dynamic up to its call of inflate_codes     (inflate.rs 666-840)
inflate_dynamic(M) ==
  LET Back(N) == [done |-> TRUE, T |-> Tables(N, None, None, 7, 5), M |-> N,
                  ll |-> <<>>, nl |-> 0, nd |-> 0, rb |-> None, m |-> 0]
      Save(N) == [N EXCEPT !.i.bb = N.i.b, !.i.bk = N.i.k]
      \* lines 670-701: nl, nd, nb and the bit length code lengths
      Read(bls, nl, nd) ==
        IF bls.M.halt # "" THEN Back(bls.M)
        ELSE [Back(bls.M) EXCEPT !.done = FALSE, !.ll = bls.ll, !.nl = nl, !.nd = nd]
      Counts(M4, nl, nd, nb) ==
        IF M4.halt # "" THEN Back(M4)
        ELSE IF nl > 286 \/ nd > 30 THEN Back(Ret(M4, 1))
        ELSE Read(inflate_bit_lengths(M4, nb), nl, nd)
      Nb(M3, nl, nd) == Counts(dump_bits(M3, 4), nl, nd, 4 + (M3.i.b % 16))
      Nd(M2, nl) == Nb(need_bits(dump_bits(M2, 5), 4), nl, 1 + (M2.i.b % 32))
      Nl(M1) == Nd(need_bits(dump_bits(M1, 5), 5), 257 + (M1.i.b % 32))
      \* lines 704-720: the table of the bit length code
      Ordered(A, rb) ==
        IF rb.halt # "" THEN Back([A.M EXCEPT !.halt = rb.halt])
        ELSE IF rb.ret # 0 THEN Back(Ret(A.M, rb.ret))
        ELSE IF ~rb.t.some THEN Back(Ret(A.M, 2))
        ELSE [A EXCEPT !.rb = rb.t, !.m = rb.m]
      Order(A) ==
        IF A.done THEN A
        ELSE Ordered(A, huft_build(A.ll, 19, 19, EmptyMap, EmptyMap, None, 7, M.build))
      \* lines 725-800: the code lengths of the two tables
      Lengths(B, lens) ==
        IF lens.M.halt # "" THEN Back(lens.M)
        ELSE IF lens.ret # -1 THEN Back(Ret(lens.M, lens.ret))
        ELSE [B EXCEPT !.M = Save(lens.M), !.ll = lens.ll]
      Coded(B) ==
        IF B.done THEN B ELSE Lengths(B, inflate_lengths(B.M, B.rb, B.m, B.nl + B.nd))
      \* lines 803-835: the two tables
      Built(M5, rl, rd) ==
        IF rl.halt # "" THEN Back([M5 EXCEPT !.halt = rl.halt]).T
        ELSE IF rl.ret # 0 THEN Back(Ret(M5, rl.ret)).T
        ELSE IF rd.halt # "" THEN Back([M5 EXCEPT !.halt = rd.halt]).T
        ELSE IF rd.ret # 0 THEN Back(Ret(M5, rd.ret)).T
        ELSE Tables(Ret(inflate_locals(M5), -1), rl.t, rd.t, rl.m, rd.m)
      Trees(D) ==
        IF D.done THEN D.T
        ELSE Built(D.M,
                   dynamic_literal_table(D.ll, D.nl, D.rb, M.i.lbits, M.build),
                   dynamic_distance_table(D.ll, D.nl, D.nd, M.i.dbits, M.build))
  IN Trees(Coded(Order(Nl(need_bits(inflate_locals(M), 5)))))

\* fn inflate_block up to its match on the block type: [M, e, t] with e
\* the last-block flag and t the block type               (inflate.rs 862-886)
inflate_block(M) ==
  LET Out(M1, M2, M3) ==
        [M |-> IF M3.halt # "" THEN M3 ELSE [M3 EXCEPT !.i.bb = M3.i.b, !.i.bk = M3.i.k],
         e |-> M1.i.b % 2,
         t |-> M2.i.b % 4]
      Type(M1, M2) == Out(M1, M2, dump_bits(M2, 2))
      Last(M1) == Type(M1, need_bits(dump_bits(M1, 1), 2))
  IN Last(need_bits(inflate_locals([M EXCEPT !.i.hufts = 0]), 1))

\* fn inflate after its loop: the bytes read ahead are given back and the
\* window is flushed; an inptr that wrapped below 0 is far past insize                                     (inflate.rs 930-940)
inflate_finish(M) ==
  LET back == M.i.bk \div 8
  IN IF M.halt # "" THEN M
     ELSE IF back > M.g.inptr /\ Debug(M) THEN Panic(M, "attempt to subtract with overflow")
     ELSE Ret(flush_output([M EXCEPT !.i.bk = @ % 8,
                                     !.g.inptr = IF back > @ THEN Pow2(30) ELSE @ - back],
                           M.i.wp), 0)

(***************************************************************************)
(* unzip.rs and the run of the decompressor as a state machine.  pc.e is   *)
(* the last-block flag of inflate, pc.r its result, pc.tl, pc.td, pc.bl    *)
(* and pc.bd the tables of the block decoder that called inflate_codes.    *)
(***************************************************************************)
\* The process that decompresses the file the compressor wrote: the member
\* is in inbuf and the header has been read.  unzip up to the first block
\* of inflate                          (unzip.rs 54-65, inflate.rs 904-909)
unzip_read(M, size) ==
  LET file == M.g.ofd
      g == [GzipState_new(<<>>, M.g.level) EXCEPT
              !.inbuf = SubSeq(file, 1, size), !.insize = size, !.inptr = 0,
              !.bytes_in = size]
  IN [M EXCEPT !.g = g, !.i = Inflate_new]

unzip_init(M) == unzip_read(M, Min(Len(M.g.ofd), INBUFSIZ))

\* fn get_byte: M.ret is the byte                        (inflate.rs 201-210)
get_byte(M) ==
  IF M.halt # "" THEN M
  ELSE IF M.g.inptr < M.g.insize
  THEN [M EXCEPT !.g.inptr = @ + 1, !.ret = ArrGet(M.g.inbuf, M.g.inptr)]
  ELSE [M EXCEPT !.g.insize = 1, !.g.inbuf = ArrSet(@, 0, 0), !.g.bytes_in = @ + 1,
                 !.g.inptr = 1, !.ret = 0]

\* unzip after inflate returned res: M.ret is err (OK = 0, ERROR = 1).  The
\* crc of the output is updcrc(Some(outbuf), 0), which is 0  (unzip.rs 67-155)
unzip_check(M, res) ==
  LET C(q) == Len(q.buf) < 8 /\ q.M.halt = ""
      Got(q, N) == [M |-> N, buf |-> Append(q.buf, N.ret)]
      F(q) == Got(q, get_byte(q.M))
      Compare(N, buf, orig_len) ==
        Ret(N, IF buf[1] = 0 /\ buf[2] = 0 /\ buf[3] = 0 /\ buf[4] = 0
                  /\ orig_len.h = 0 /\ orig_len.r = N.g.bytes_out
               THEN 0 ELSE 1)
      Fields(N, buf) ==
        Compare(N, buf,
                [h |-> buf[8] \div 128,
                 r |-> buf[5] + 256 * buf[6] + 65536 * buf[7] + 16777216 * (buf[8] % 128)])
      Read(rd) == IF rd.M.halt # "" THEN rd.M ELSE Fields(rd.M, rd.buf)
  IN IF res = 3 THEN gzip_error(M, "memory exhausted")
     ELSE IF res # 0 THEN gzip_error(M, "invalid compressed data--format violated")
     ELSE Read(While(C, F, 3, [M |-> M, buf |-> <<>>]))

Unzip ==
  /\ pc.at = "zipped"
  /\ Goto(unzip_init(Mach), At("block"), obs)

\* a loop that looks at the last-block flag before the result of the block
BlockDone_last_first(M, r, e) ==
  IF e # 0 THEN Goto(inflate_finish(M), [At("inflated") EXCEPT !.r = 0, !.e = e], obs)
  ELSE IF r # 0 THEN Goto(M, [At("inflated") EXCEPT !.r = r, !.e = e], obs)
  ELSE Goto(M, [At("block") EXCEPT !.e = e], obs)

\* the loop of inflate after inflate_block returned r with *e = e
BlockDone(M, r, e) ==
  IF r # 0 THEN Goto(M, [At("inflated") EXCEPT !.r = r, !.e = e], obs)
  ELSE IF e # 0 THEN Goto(inflate_finish(M), [At("inflated") EXCEPT !.r = 0, !.e = e], obs)
  ELSE Goto(M, [At("block") EXCEPT !.e = e], obs)

\* the block decoder goes on to inflate_codes, or has returned
ToCodes(T, e) ==
  IF T.M.halt = "" /\ T.M.ret = -1
  THEN Goto(T.M, [At("codes") EXCEPT !.tl = T.tl, !.td = T.td, !.bl = T.bl, !.bd = T.bd,
                                      !.e = e], obs)
  ELSE BlockDone(T.M, T.M.ret, e)

\* inflate_block, and the block decoder it calls up to inflate_codes; a
\* stored block is decoded by the next step
Block ==
  /\ pc.at = "block"
  /\ LET Decode(B) ==
           CASE B.M.halt # "" -> Goto(B.M, pc, obs)
             [] B.M.halt = "" /\ B.t = 0 -> Goto(B.M, [At("stored") EXCEPT !.e = B.e], obs)
             [] B.M.halt = "" /\ B.t = 1 -> ToCodes(inflate_fixed(B.M), B.e)
             [] B.M.halt = "" /\ B.t = 2 -> ToCodes(inflate_dynamic(B.M), B.e)
             [] OTHER -> BlockDone(B.M, 2, B.e)
     IN Decode(inflate_block(Mach))

Stored ==
  /\ pc.at = "stored"
  /\ LET Done(M) == BlockDone(M, M.ret, pc.e) IN Done(inflate_stored(Mach))

Codes ==
  /\ pc.at = "codes"
  /\ LET Token(M) ==
           IF M.halt = "" /\ M.ret = -1 THEN Goto(M, pc, [obs EXCEPT !.tokens = @ + 1])
           ELSE BlockDone(M, IF M.ret # 0 THEN 1 ELSE 0, pc.e)
     IN Token(inflate_codes_token(Mach, pc.tl, pc.td, pc.bl, pc.bd))

\* one pass of the loop of inflate_dynamic that reads the code lengths; n is
\* the length of literal_lengths                      (inflate.rs 718-794)
LengthCode ==
  /\ pc.at = "lengths"
  /\ LET Go(q) ==
           IF q.M.halt = "" /\ q.ret # -1
           THEN Goto(q.M, [At("inflated") EXCEPT !.r = q.ret, !.ll = q.ll, !.i = q.i,
                                                 !.l = q.l], obs)
           ELSE Goto(q.M, [At(IF q.i < Len(pc.ll) THEN "lengths" ELSE "tables") EXCEPT
                             !.ll = q.ll, !.i = q.i, !.l = q.l],
                     [obs EXCEPT !.tokens = @ + 1])
     IN Go(inflate_lengths_code([M |-> Mach, ll |-> pc.ll, i |-> pc.i, l |-> pc.l,
                                 ret |-> -1], pc.tl, pc.bl, Len(pc.ll)))

Inflated ==
  /\ pc.at = "inflated"
  /\ LET Checked(M) == Goto(M, At("unzipped"), [obs EXCEPT !.res = pc.r, !.err = M.ret])
     IN Checked(unzip_check(Mach, pc.r))

(***************************************************************************)
(* The runs.  A run compresses one input file at one level with one build  *)
(* of the program, and then decompresses the file that was written.        *)
(***************************************************************************)
RunLen == 100000
UniqLen == 48
MaxLevel == 9
MaxStored == 3

Seg(b) == [k |-> "seq", b |-> b]

ShortInputs ==
  { <<>>,
    <<Seg(<<65>>)>>,
    <<Seg(<<65, 65, 65, 65, 65, 65, 65, 65, 65, 65, 66, 67>>)>>,
    <<Seg(<<88, 89, 88, 89, 88, 89, 88, 89>>)>>,
    <<[k |-> "uniq", lo |-> 144, n |-> UniqLen]>> }

LongInputs == { <<[k |-> "run", c |-> 65, n |-> RunLen]>> }

Builds == {"debug", "release"}

\* the runs that compress and then decompress
ZipRuns ==
  [mode : {"zip"}, input : ShortInputs, level : 0..MaxLevel, build : Builds, file : {<<>>}]
    \cup [mode : {"zip"}, input : LongInputs, level : {1}, build : Builds, file : {<<>>}]

\* A stored block as it lies in a file: the header byte (the last-block
\* flag e, block type 0, padding), LEN, NLEN, and the bytes given.
StoredBlock(e, len, nlen, data) ==
  <<e, len % 256, len \div 256, nlen % 256, nlen \div 256>> \o data

Trailer == <<0, 0, 0, 0, 0, 0, 0, 0>>

Data == <<65, 0, 255, 66>>

StoredFiles ==
  { StoredBlock(e, len, (65535 - len + off) % 65536, SubSeq(Data, 1, given)) \o rest :
      e \in {0, 1}, len \in 0..MaxStored, off \in {0, 1}, given \in 0..MaxStored,
      rest \in {<<>>, Trailer, StoredBlock(1, 1, 65534, <<67>>) \o Trailer} }

\* other files: a block of type 3, a fixed block, dynamic blocks
OtherFiles ==
  { <<7>>, <<3, 0>>, <<5, 0, 0, 0, 0>>, <<5, 0, 36, 73, 146, 0, 0>>, <<4, 224, 255, 255, 255>> }

\* the runs that decompress a file that is given
UnzipRuns ==
  [mode : {"unzip"}, input : {<<>>}, level : {6}, build : Builds,
   file : StoredFiles \cup OtherFiles]

Start(run, at) ==
  /\ env = run
  /\ pc = [at |-> at, eof |-> FALSE, max_blindex |-> 0, e |-> 0, r |-> 0,
           tl |-> None, td |-> None, bl |-> 0, bd |-> 0,
           ll |-> <<>>, i |-> 0, l |-> 0]
  /\ dfl = Deflate_new
  /\ trs = Trees_new
  /\ gzs = [GzipState_new(run.input, run.level) EXCEPT !.ofd = run.file]
  /\ ifl = Inflate_new
  /\ halt = ""
  /\ obs = [emitted |-> <<>>, tokens |-> 0, matches |-> 0, far |-> 0, stream |-> <<>>,
            res |-> -1, err |-> -1]

Init ==
  \/ \E run \in ZipRuns : Start(run, "zip")
  \/ \E run \in UnzipRuns : Start(run, "zipped")

Next ==
  \/ Zip
  \/ Deflate
  \/ Find
  \/ Tally
  \/ FlushL
  \/ FlushD
  \/ FlushBl
  \/ FlushEmit
  \/ Fill
  \/ Unzip
  \/ Block
  \/ Stored
  \/ Inflated

Spec == Init /\ [][Next]_vars

(***************************************************************************)
(* Runs of the compressor that write two blocks.  At level 3 ct_tally asks *)
(* for a flush after TallyCheck tokens when fewer than half of them are    *)
(* matches and the input is more than twice the estimate of the output     *)
(* (trees.rs 367-392).  The input is a run of one byte that gives two      *)
(* literals and BlockMatches matches of MAX_MATCH bytes, then literals up  *)
(* to the flush, then the bytes of the second block: they give matches of  *)
(* distance 1 and of distance 2.  A run is followed from the first call of *)
(* flush_block: the state there is the one the program has reached, as     *)
(* zip, deflate and the loop of deflate_fast compute it.                   *)
(***************************************************************************)
TallyCheck == 4096
BlockMatches == 20

\* the loop of deflate_fast up to the first ct_tally that returns true, or
\* to the end of the input                                (deflate.rs 219-281)
deflate_fast_until_flush(M) ==
  LET C(N) == N.halt = "" /\ N.d.lookahead # 0 /\ ~N.d.flush
      Filled(N) == IF N.halt # "" \/ N.d.flush THEN N ELSE fill_lookahead(N)
      F(N) == Filled(deflate_fast_tally(deflate_fast_find(N)))
  IN While16(C, F, 3, M)

BlockTails ==
  { <<66, 66, 66, 66, 66, 66, 88, 89, 88, 89, 88, 89, 88, 89>> \o more :
      more \in {<<>>, <<67, 68, 69, 70>>, <<88, 89, 88, 89, 90, 90, 90, 90>>} }

BlockInputs ==
  { <<[k |-> "run", c |-> 65, n |-> 2 + (MAX_MATCH * BlockMatches)],
      [k |-> "uniq", lo |-> 144, n |-> TallyCheck - 2 - BlockMatches],
      Seg(tail)>> : tail \in BlockTails }

BlockRuns ==
  [mode : {"zip"}, input : BlockInputs, level : {3}, build : Builds, file : {<<>>}]

\* the run at its first call of flush_block_wrapper
AtFirstFlush(run, M) ==
  /\ env = run
  /\ pc = [at |-> IF M.halt # "" THEN "halted" ELSE "flush_l",
           eof |-> M.d.lookahead = 0, max_blindex |-> 0, e |-> 0, r |-> 0,
           tl |-> None, td |-> None, bl |-> 0, bd |-> 0,
           ll |-> <<>>, i |-> 0, l |-> 0]
  /\ dfl = M.d
  /\ trs = M.t
  /\ gzs = M.g
  /\ ifl = M.i
  /\ halt = M.halt
  /\ obs = [emitted |-> <<>>, tokens |-> M.t.last_lit, matches |-> M.t.last_dist,
            far |-> 0, stream |-> <<>>, res |-> -1, err |-> -1]

InitBlocks ==
  \E run \in BlockRuns :
    AtFirstFlush(run,
      deflate_fast_until_flush(deflate(zip_init(
        [d |-> Deflate_new, t |-> Trees_new, g |-> GzipState_new(run.input, run.level),
         i |-> Inflate_new, halt |-> "", ret |-> 0, build |-> run.build,
         emitted |-> <<>>]))))

NextBlocks ==
  \/ Find
  \/ Tally
  \/ FlushL
  \/ FlushD
  \/ FlushBl
  \/ FlushEmit
  \/ Fill

SpecBlocks == InitBlocks /\ [][NextBlocks]_vars

(***************************************************************************)
(* huft_build on its own.  A run is one call: the code lengths b of the    *)
(* symbols 0..Len(b)-1 (all of them simple codes, as for the literals),    *)
(* the lookup bits m asked for, and the build.  obs.huft is what the call  *)
(* gave back.                                                              *)
(***************************************************************************)
MaxCodes == 4
MaxCodeLen == 3

RECURSIVE Lengths(_)
Lengths(n) ==
  IF n = 0 THEN {<<>>}
  ELSE { Append(b, x) : b \in Lengths(n - 1), x \in 0..MaxCodeLen }

HuftRuns ==
  [mode : {"huft"}, b : UNION { Lengths(n) : n \in 1..MaxCodes }, m : 1..MaxCodeLen,
   build : Builds]

InitHuft ==
  /\ env \in HuftRuns
  /\ pc = [at |-> "huft_build"]
  /\ dfl = Deflate_new
  /\ trs = Trees_new
  /\ gzs = GzipState_new(<<>>, 6)
  /\ ifl = Inflate_new
  /\ halt = ""
  /\ obs = [huft |-> [ret |-> 0, t |-> None, m |-> env.m, halt |-> ""]]

HuftBuild ==
  /\ pc.at = "huft_build"
  /\ LET Built(r) ==
           /\ obs' = [obs EXCEPT !.huft = r]
           /\ halt' = r.halt
           /\ pc' = [pc EXCEPT !.at = IF r.halt # "" THEN "halted" ELSE "huft_built"]
     IN Built(huft_build(env.b, Len(env.b), 257, cplens, cplext, None, env.m, env.build))
  /\ UNCHANGED <<env, dfl, trs, gzs, ifl>>

NextHuft == HuftBuild

SpecHuft == InitHuft /\ [][NextHuft]_vars

(***************************************************************************)
(* inflate_codes on its own.  The block decoders of this program never     *)
(* reach their call of inflate_codes, so it is run here from its entry     *)
(* with the tables of a small complete code, laid out as inflate_codes     *)
(* reads them: a table of 1 << bl entries indexed by the next bl bits.     *)
(*   literal/length: 256 -> 0, 65 -> 10, 257 -> 110, 258 -> 111            *)
(*   distance:       0 -> 0, 1 -> 1                                        *)
(* The index of an entry is its code with the bits reversed, followed by   *)
(* any bits.  A run is the bytes of the block and the build.               *)
(***************************************************************************)
CodesTl ==
  LET end == HuftN(256, 15, 1)
      lit == HuftN(65, 16, 2)
  IN Some(HuftT(<<end, lit, end, HuftN(cplens[0], cplext[0], 3),
                  end, lit, end, HuftN(cplens[1], cplext[1], 3)>>, 0, 0))

CodesTd ==
  Some(HuftT(<<HuftN(cpdist[0], cpdext[0], 1), HuftN(cpdist[1], cpdext[1], 1)>>, 0, 0))

CodesRuns ==
  [mode : {"codes"}, input : {<<>>}, level : {6}, build : Builds,
   file : { <<x>> : x \in 0..255 }]

InitCodes ==
  /\ env \in CodesRuns
  /\ pc = [at |-> "codes", eof |-> FALSE, max_blindex |-> 0, e |-> 1, r |-> 0,
           tl |-> CodesTl, td |-> CodesTd, bl |-> 3, bd |-> 1,
           ll |-> <<>>, i |-> 0, l |-> 0]
  /\ dfl = Deflate_new
  /\ trs = Trees_new
  /\ gzs = unzip_init([g |-> [GzipState_new(<<>>, env.level) EXCEPT !.ofd = env.file],
                       i |-> Inflate_new]).g
  /\ ifl = Inflate_new
  /\ halt = ""
  /\ obs = [emitted |-> <<>>, tokens |-> 0, matches |-> 0, far |-> 0, stream |-> <<>>,
            res |-> -1, err |-> -1]

NextCodes ==
  \/ Codes
  \/ Inflated

SpecCodes == InitCodes /\ [][NextCodes]_vars

(***************************************************************************)
(* inflate_dynamic.  A run decodes a file that is one dynamic block header *)
(* (the counts nl, nd, nb), or it goes through the loop over the code      *)
(* lengths with a table of the bit length code that is given: the 2-bit    *)
(* codes 0, 1, 2, 3 stand for the symbols 18, 3, 16 and 17.                *)
(***************************************************************************)
MaxLengthCodes == 3

\* the bytes of a header: last-block flag, type 2, nl - 257, nd - 1, nb - 4
DynHeader(e, nl, nd, nb) ==
  LET v == e + 4 + (8 * (nl - 257)) + (256 * (nd - 1)) + (8192 * (nb - 4))
  IN <<v % 256, (v \div 256) % 256, v \div 65536>>

DynHeaderRuns ==
  [mode : {"unzip"}, input : {<<>>}, level : {6}, build : Builds,
   file : { DynHeader(e, nl, nd, 4) : e \in {0, 1}, nl \in {257, 286, 287, 288},
                                      nd \in {1, 30, 31, 32} }]

LengthsTl == Some(HuftT(<<HuftN(18, 16, 2), HuftN(3, 16, 2), HuftN(16, 16, 2),
                          HuftN(17, 16, 2)>>, 0, 0))

\* a code of LengthsTl with its extra bits: [c, x, b] is the code c followed
\* by the b bits of x
LengthCodes ==
  { [c |-> 1, x |-> 0, b |-> 0], [c |-> 2, x |-> 0, b |-> 2], [c |-> 2, x |-> 3, b |-> 2],
    [c |-> 3, x |-> 7, b |-> 3], [c |-> 0, x |-> 0, b |-> 7], [c |-> 0, x |-> 109, b |-> 7],
    [c |-> 0, x |-> 127, b |-> 7] }

\* the n low bits of v, the lowest first
BitsOf(v, n) == [j \in 1..n |-> (v \div Pow2(j - 1)) % 2]

RECURSIVE LengthBits(_, _)
LengthBits(codes, j) ==
  IF j > Len(codes) THEN <<>>
  ELSE BitsOf(codes[j].c, 2) \o BitsOf(codes[j].x, codes[j].b) \o LengthBits(codes, j + 1)

\* the bytes that hold the bits, the first bit lowest in the first byte
LengthsFile(codes) ==
  LET bits == LengthBits(codes, 1)
      BitAt(q) == IF q <= Len(bits) THEN bits[q] ELSE 0
  IN [k \in 1..((Len(bits) + 7) \div 8) |->
        BitAt(8 * k - 7) + 2 * BitAt(8 * k - 6) + 4 * BitAt(8 * k - 5)
          + 8 * BitAt(8 * k - 4) + 16 * BitAt(8 * k - 3) + 32 * BitAt(8 * k - 2)
          + 64 * BitAt(8 * k - 1) + 128 * BitAt(8 * k)]

LengthsRuns ==
  [mode : {"lengths"}, input : {<<>>}, level : {6}, build : Builds,
   file : { LengthsFile(codes) : codes \in [1..MaxLengthCodes -> LengthCodes] }]

InitDynamic ==
  \/ \E run \in DynHeaderRuns : Start(run, "zipped")
  \/ /\ env \in LengthsRuns
     /\ pc = [at |-> "lengths", eof |-> FALSE, max_blindex |-> 0, e |-> 1, r |-> 0,
              tl |-> LengthsTl, td |-> None, bl |-> 2, bd |-> 0,
              ll |-> [c \in 1..258 |-> 0], i |-> 0, l |-> 0]
     /\ dfl = Deflate_new
     /\ trs = Trees_new
     /\ gzs = unzip_init([g |-> [GzipState_new(<<>>, env.level) EXCEPT !.ofd = env.file],
                          i |-> Inflate_new]).g
     /\ ifl = Inflate_new
     /\ halt = ""
     /\ obs = [emitted |-> <<>>, tokens |-> 0, matches |-> 0, far |-> 0, stream |-> <<>>,
               res |-> -1, err |-> -1]

NextDynamic ==
  \/ Unzip
  \/ Block
  \/ LengthCode
  \/ Inflated

SpecDynamic == InitDynamic /\ [][NextDynamic]_vars

(***************************************************************************)
(* inflate_codes on its own, entered with a window that holds wp bytes, 0  *)
(* each: the tables are those of the small code above and a run is the    *)
(* byte of the block, the window position and the build.                   *)
(***************************************************************************)
WindowRuns ==
  [mode : {"window"}, input : {<<>>}, level : {6}, build : Builds,
   file : { <<x>> : x \in 0..63 },
   wp : {0, 1, WSIZE - 3, WSIZE - 2}]

InitWindow ==
  /\ env \in WindowRuns
  /\ pc = [at |-> "codes", eof |-> FALSE, max_blindex |-> 0, e |-> 1, r |-> 0,
           tl |-> CodesTl, td |-> CodesTd, bl |-> 3, bd |-> 1,
           ll |-> <<>>, i |-> 0, l |-> 0]
  /\ dfl = Deflate_new
  /\ trs = Trees_new
  /\ gzs = unzip_init([g |-> [GzipState_new(<<>>, env.level) EXCEPT !.ofd = env.file],
                       i |-> Inflate_new]).g
  /\ ifl = [Inflate_new EXCEPT !.wp = env.wp, !.w = env.wp]
  /\ halt = ""
  /\ obs = [emitted |-> <<>>, tokens |-> 0, matches |-> 0, far |-> 0, stream |-> <<>>,
            res |-> -1, err |-> -1]

NextWindow ==
  \/ Codes
  \/ Inflated

SpecWindow == InitWindow /\ [][NextWindow]_vars

(***************************************************************************)
(* The decoder on a member of which the read that filled inbuf delivered   *)
(* only the first bytes (main.rs 1075-1084: insize is what one read gave). *)
(* The rest of the member is still in the file when inflate starts.        *)
(* run.data is what the stored blocks of the file hold.                    *)
(***************************************************************************)
RefillFiles ==
  { [file |-> StoredBlock(e, len, 65535 - len, SubSeq(Data, 1, len)) \o more.file,
     data |-> SubSeq(Data, 1, len) \o more.data] :
      len \in 0..MaxStored,
      e \in {1},
      more \in { [file |-> Trailer, data |-> <<>>] } }
    \cup
  { [file |-> StoredBlock(0, len, 65535 - len, SubSeq(Data, 1, len))
                \o StoredBlock(1, 1, 65534, <<67>>) \o Trailer,
     data |-> SubSeq(Data, 1, len) \o <<67>>] : len \in 0..MaxStored }

RefillRuns ==
  { [mode |-> "refill", input |-> <<>>, level |-> 6, build |-> b, file |-> f.file,
     data |-> f.data, first |-> first] :
      b \in Builds, f \in RefillFiles, first \in 1..(5 + MaxStored + 6 + 8) }

InitRefill ==
  /\ env \in RefillRuns
  /\ env.first <= Len(env.file)
  /\ pc = [at |-> "block", eof |-> FALSE, max_blindex |-> 0, e |-> 0, r |-> 0,
           tl |-> None, td |-> None, bl |-> 0, bd |-> 0,
           ll |-> <<>>, i |-> 0, l |-> 0]
  /\ dfl = Deflate_new
  /\ trs = Trees_new
  /\ gzs = unzip_read([g |-> [GzipState_new(<<>>, env.level) EXCEPT !.ofd = env.file],
                       i |-> Inflate_new], env.first).g
  /\ ifl = Inflate_new
  /\ halt = ""
  /\ obs = [emitted |-> <<>>, tokens |-> 0, matches |-> 0, far |-> 0, stream |-> <<>>,
            res |-> -1, err |-> -1]

NextRefill ==
  \/ Block
  \/ Stored
  \/ Inflated

SpecRefill == InitRefill /\ [][NextRefill]_vars

(***************************************************************************)
(* The two tables of a dynamic block, built from code lengths that are     *)
(* given.  The literal/length code is complete and has no unused symbol:   *)
(* two symbols, run.x and run.y, have the length 10, and of the other 284  *)
(* the first 227 have the length 8 and the rest the length 9; the distance *)
(* code has the two symbols 0 and 1 with the length 1.                     *)
(***************************************************************************)
TableSymbols == {100, 256, 257, 258, 260, 265, 273, 285}

TableRuns ==
  { run \in [mode : {"tables"}, build : Builds, x : TableSymbols, y : TableSymbols,
             nl : {286}, nd : {2}] : run.x # run.y }

TableLengths(run) ==
  [c \in 1..(run.nl + run.nd) |->
     IF c > run.nl THEN 1
     ELSE IF c - 1 = run.x \/ c - 1 = run.y THEN 10
     ELSE IF Cardinality({q \in 0..(c - 2) : q # run.x /\ q # run.y}) < 227 THEN 8
     ELSE 9]

InitTables ==
  /\ env \in TableRuns
  /\ pc = [at |-> "tables"]
  /\ dfl = Deflate_new
  /\ trs = Trees_new
  /\ gzs = GzipState_new(<<>>, 6)
  /\ ifl = Inflate_new
  /\ halt = ""
  /\ obs = [tl |-> [ret |-> 0, t |-> None, m |-> 0, halt |-> ""],
            td |-> [ret |-> 0, t |-> None, m |-> 0, halt |-> ""]]

\* the literal/length table
LiteralTable ==
  /\ pc.at = "tables"
  /\ LET Built(r) ==
           /\ obs' = [obs EXCEPT !.tl = r]
           /\ halt' = r.halt
           /\ pc' = [pc EXCEPT !.at = IF r.halt # "" THEN "halted"
                                      ELSE IF r.ret # 0 THEN "refused"
                                      ELSE "distances"]
     IN Built(dynamic_literal_table(TableLengths(env), env.nl, None, ifl.lbits, env.build))
  /\ UNCHANGED <<env, dfl, trs, gzs, ifl>>

\* the distance table
DistanceTable ==
  /\ pc.at = "distances"
  /\ LET Built(r) ==
           /\ obs' = [obs EXCEPT !.td = r]
           /\ halt' = r.halt
           /\ pc' = [pc EXCEPT !.at = IF r.halt # "" THEN "halted"
                                      ELSE IF r.ret # 0 THEN "refused"
                                      ELSE "built"]
     IN Built(dynamic_distance_table(TableLengths(env), env.nl, env.nd, ifl.dbits,
                                     env.build))
  /\ UNCHANGED <<env, dfl, trs, gzs, ifl>>

NextTables ==
  \/ LiteralTable
  \/ DistanceTable

SpecTables == InitTables /\ [][NextTables]_vars

(***************************************************************************)
(* send_tree and the loop of inflate_dynamic that reads the code lengths.  *)
(* A run is the code lengths of a literal/length tree and of a distance    *)
(* tree, each given as runs of equal lengths.  The bit length code is one  *)
(* of 5 bits a symbol, the code of a symbol being its number: bl_tree for  *)
(* the sender, and for the reader a table of 1 << 5 entries indexed by the *)
(* next 5 bits.                                                            *)
(***************************************************************************)
MaxTreeRuns == 2

TreeBlTree ==
  [k \in 1..(2 * BL_CODES + 1) |->
     IF k <= BL_CODES THEN [CtZero EXCEPT !.code = k - 1, !.len = 5] ELSE CtZero]

TreeTl ==
  Some(HuftT([k \in 1..32 |-> IF k <= BL_CODES THEN HuftN(k - 1, 16, 5)
                                ELSE HuftN(0, 99, 5)], 0, 0))

\* a run of n code lengths v
TreeRun == [v : {0, 3}, n : {1, 3, 4, 7, 11, 139}]

RECURSIVE TreeLens(_, _)
TreeLens(runs, j) ==
  IF j > Len(runs) THEN <<>>
  ELSE [c \in 1..runs[j].n |-> runs[j].v] \o TreeLens(runs, j + 1)

TreeRuns ==
  { [mode |-> "tree", build |-> b, ltree |-> TreeLens(l, 1), dtree |-> TreeLens(<<d>>, 1)] :
      b \in Builds,
      l \in UNION { [1..k -> TreeRun] : k \in 1..MaxTreeRuns },
      d \in [v : {0, 3}, n : {1, 4}] }

\* the vector of CtData that has the code lengths lens
TreeOf(lens) == [k \in 1..Len(lens) |-> [CtZero EXCEPT !.len = lens[k]]]

InitTree ==
  /\ env \in TreeRuns
  /\ pc = [at |-> "send_trees", eof |-> FALSE, max_blindex |-> 0, e |-> 1, r |-> 0,
           tl |-> TreeTl, td |-> None, bl |-> 5, bd |-> 0,
           ll |-> <<>>, i |-> 0, l |-> 0]
  /\ dfl = Deflate_new
  /\ trs = [Trees_new EXCEPT !.bl_tree = TreeBlTree]
  /\ gzs = GzipState_new(<<>>, 6)
  /\ ifl = Inflate_new
  /\ halt = ""
  /\ obs = [emitted |-> <<>>, tokens |-> 0, matches |-> 0, far |-> 0, stream |-> <<>>,
            res |-> -1, err |-> -1]

\* the two calls of send_tree that end send_all_trees (trees.rs 551-554);
\* the bits are flushed and the bytes written are handed to the reader
SendTrees ==
  /\ pc.at = "send_trees"
  /\ LET Read(M) ==
           Goto(unzip_init(M),
                [At("lengths") EXCEPT !.ll = [c \in 1..(Len(env.ltree) + Len(env.dtree)) |-> 0]],
                [obs EXCEPT !.stream = M.g.ofd])
         Sent(M) == Read(bi_windup(M))
         Dist(M) == Sent(send_tree(M, TreeOf(env.dtree), Len(env.dtree) - 1))
     IN Dist(send_tree(Mach, TreeOf(env.ltree), Len(env.ltree) - 1))

NextTree ==
  \/ SendTrees
  \/ LengthCode

SpecTree == InitTree /\ [][NextTree]_vars

(***************************************************************************)
(* The third block of a run.  flush_block_emit takes its last branch, the  *)
(* dynamic block, when static_lenb is above opt_lenb and the stored block  *)
(* is not taken.  opt_len and static_len are not set back between blocks   *)
(* (init_block, trees.rs 280-298) and build_tree subtracts from static_len *)
(* the static length of every code it forces (trees.rs 792-804), so this   *)
(* happens in the third block of this input: literals and the start of a   *)
(* run of one byte, up to the flush at 4096 tokens; the rest of the run,   *)
(* whose matches have all the distance 258, and literals, up to the flush  *)
(* at 8192 tokens; then literals only.  A run is followed from its second  *)
(* call of flush_block.                                                    *)
(***************************************************************************)
LastLiterals == 40

\* fn flush_block_wrapper(eof)                           (deflate.rs 287-306)
flush_block_wrapper(M, eof) ==
  LET buf == flush_block_buf(M.d)
      Emit(N) == flush_block_emit(N, buf, buf.stored_len, eof, N.ret)
  IN IF M.halt # "" THEN M
     ELSE IF ~buf.valid THEN Panic(M, "flush_block_wrapper: Invalid window indices")
     ELSE Emit(flush_block_bl(flush_block_d(flush_block_l(M))))

\* in the loop of deflate_fast: the flush, block_start = strstart, the
\* refill of the lookahead, and the loop up to the next ct_tally that
\* returns true                                         (deflate.rs 273-281)
deflate_fast_flushed(M) ==
  LET Started(N) ==
        IF N.halt # "" THEN N
        ELSE fill_lookahead([N EXCEPT !.d.block_start = N.d.strstart, !.d.flush = FALSE])
  IN deflate_fast_until_flush(Started(flush_block_wrapper(M, FALSE)))

Pairs(lo, hi, off, p, n) == [k |-> "pairs", lo |-> lo, hi |-> hi, off |-> off, p |-> p, n |-> n]

LastBlockInputs ==
  { << Pairs(144, 208, 0, TallyCheck, TallyCheck - 1 - BlockMatches),
       [k |-> "run", c |-> 0, n |-> 1 + (MAX_MATCH * (4 * BlockMatches))],
       Pairs(16, 80, 0, TallyCheck, TallyCheck - (3 * BlockMatches)),
       Pairs(144, 80, 0, TallyCheck, n) >> : n \in {LastLiterals, LastLiterals + 1} }

LastBlockRuns ==
  [mode : {"zip"}, input : LastBlockInputs, level : {3}, build : Builds, file : {<<>>}]

\* the run at a later call of flush_block_wrapper
AtLaterFlush(run, M) ==
  /\ env = run
  /\ pc = [at |-> IF M.halt # "" THEN "halted" ELSE "flush_l",
           eof |-> ~M.d.flush, max_blindex |-> 0, e |-> 0, r |-> 0,
           tl |-> None, td |-> None, bl |-> 0, bd |-> 0,
           ll |-> <<>>, i |-> 0, l |-> 0]
  /\ dfl = M.d
  /\ trs = M.t
  /\ gzs = M.g
  /\ ifl = M.i
  /\ halt = M.halt
  /\ obs = [emitted |-> M.emitted, tokens |-> M.t.last_lit, matches |-> M.t.last_dist,
            far |-> 0, stream |-> <<>>, res |-> -1, err |-> -1]

InitLastBlock ==
  \E run \in LastBlockRuns :
    AtLaterFlush(run,
      deflate_fast_flushed(deflate_fast_until_flush(deflate(zip_init(
        [d |-> Deflate_new, t |-> Trees_new, g |-> GzipState_new(run.input, run.level),
         i |-> Inflate_new, halt |-> "", ret |-> 0, build |-> run.build,
         emitted |-> <<>>])))))

NextLastBlock ==
  \/ Find
  \/ Tally
  \/ FlushL
  \/ FlushD
  \/ FlushBl
  \/ FlushEmit
  \/ Fill

SpecLastBlock == InitLastBlock /\ [][NextLastBlock]_vars

(***************************************************************************)
(* gen_codes on the lengths of a tree.  The lengths are those gen_bitlen   *)
(* is to leave (trees.rs 866-873): lengths of the symbols 0..max_code      *)
(* whose Kraft sum is at most 1, with bl_count[b] the number of symbols of *)
(* length b, and max_code a symbol with a length.  gen_codes is called as  *)
(* build_tree calls it (trees.rs 847).                                     *)
(***************************************************************************)
CodeSymbols == 4
CodeBits == 3

RECURSIVE CodeKraft(_, _)
CodeKraft(lens, k) ==
  IF k > Len(lens) THEN 0
  ELSE (IF lens[k] = 0 THEN 0 ELSE Pow2(CodeBits - lens[k])) + CodeKraft(lens, k + 1)

CodeLens ==
  UNION { { lens \in [1..n -> 0..CodeBits] :
              lens[n] # 0 /\ CodeKraft(lens, 1) <= Pow2(CodeBits) } : n \in 1..CodeSymbols }

CodeRuns ==
  [mode : {"gen_codes"}, input : {<<>>}, level : {1}, build : Builds, file : CodeLens]

CodeTree(lens) ==
  [k \in 1..((2 * L_CODES) + 1) |->
     IF k <= Len(lens) THEN [CtZero EXCEPT !.freq = IF lens[k] = 0 THEN 0 ELSE 1, !.len = lens[k]]
     ELSE CtZero]

CodeCount(lens) ==
  [b \in 0..MAX_BITS |->
     IF b = 0 THEN 0 ELSE Cardinality({k \in 1..Len(lens) : lens[k] = b})]

InitGenCodes ==
  /\ env \in CodeRuns
  /\ pc = [at |-> "gen_codes", eof |-> FALSE, max_blindex |-> 0, e |-> 0, r |-> 0,
           tl |-> None, td |-> None, bl |-> 0, bd |-> 0,
           ll |-> <<>>, i |-> 0, l |-> 0]
  /\ dfl = Deflate_new
  /\ trs = [Trees_new EXCEPT !.dyn_ltree = CodeTree(env.file),
                             !.bl_count = CodeCount(env.file)]
  /\ gzs = GzipState_new(<<>>, 1)
  /\ ifl = Inflate_new
  /\ halt = ""
  /\ obs = [emitted |-> <<>>, tokens |-> 0, matches |-> 0, far |-> 0, stream |-> <<>>,
            res |-> -1, err |-> -1]

\* Self::gen_codes(&self.bl_count, tree, desc.max_code)            (trees.rs 847)
GenCodes ==
  /\ pc.at = "gen_codes"
  /\ LET Coded(M, gc) == [M EXCEPT !.t.dyn_ltree = gc.tree, !.halt = gc.halt]
     IN Goto(Coded(Mach, gen_codes(trs.bl_count, trs.dyn_ltree, Len(env.file) - 1,
                                   env.build)),
             At("coded"), obs)

NextGenCodes == GenCodes

SpecGenCodes == InitGenCodes /\ [][NextGenCodes]_vars

(***************************************************************************)
(* Runs of the compressor in which the window slides: the input is longer  *)
(* than WSIZE + MAX_DIST.  One input is a run of one byte, the other the   *)
(* repetition of MAX_MATCH bytes that are all different as triples, so     *)
(* that the bytes, the heads and the links that the slide moves differ     *)
(* from one another.                                                       *)
(***************************************************************************)
SlideInputs ==
  { <<[k |-> "run", c |-> 65, n |-> RunLen]>>,
    <<Pairs(144, 208, 0, MAX_MATCH, RunLen)>> }

SlideRuns ==
  [mode : {"zip"}, input : SlideInputs, level : {1}, build : Builds, file : {<<>>}]

InitSlide == \E run \in SlideRuns : Start(run, "zip")

NextSlide ==
  \/ Zip
  \/ Deflate
  \/ Find
  \/ Tally
  \/ FlushL
  \/ FlushD
  \/ FlushBl
  \/ FlushEmit
  \/ Fill

SpecSlide == InitSlide /\ [][NextSlide]_vars

(***************************************************************************)
(* The bit writer against the bit reader.  A run makes the calls           *)
(* send_bits(value, length) of a list, then bi_windup; the bytes written   *)
(* are handed to the reader, which takes the same lengths in the same      *)
(* order with need_bits and dump_bits.  to_stdout is the flag the option   *)
(* -c sets (main.rs 375).                                                  *)
(***************************************************************************)
MaxBitCalls == 3

BitLengths == {1, 5, 8, 11, 16}

BitCalls ==
  UNION { { [length |-> len, value |-> v] : v \in {0, Pow2(len - 1), Pow2(len) - 1} } :
            len \in BitLengths }

BitRuns ==
  [mode : {"bits"}, build : Builds, to_stdout : BOOLEAN,
   calls : UNION { [1..n -> BitCalls] : n \in 1..MaxBitCalls }]

InitBits ==
  /\ env \in BitRuns
  /\ pc = [at |-> "send", eof |-> FALSE, max_blindex |-> 0, e |-> 0, r |-> 0,
           tl |-> None, td |-> None, bl |-> 0, bd |-> 0,
           ll |-> <<>>, i |-> 0, l |-> 0]
  /\ dfl = Deflate_new
  /\ trs = Trees_new
  /\ gzs = [GzipState_new(<<>>, 6) EXCEPT !.to_stdout = env.to_stdout]
  /\ ifl = Inflate_new
  /\ halt = ""
  /\ obs = [emitted |-> <<>>, tokens |-> 0, matches |-> 0, far |-> 0, stream |-> <<>>,
            res |-> -1, err |-> -1]

\* the next call send_bits(value, length)
SendBits ==
  /\ pc.at = "send"
  /\ pc.i < Len(env.calls)
  /\ LET call == env.calls[pc.i + 1]
     IN Goto(send_bits(Mach, call.value, call.length), [pc EXCEPT !.i = @ + 1], obs)

\* bi_windup after the last call
Windup ==
  /\ pc.at = "send"
  /\ pc.i = Len(env.calls)
  /\ LET Go(M) == Goto(M, [At("wound") EXCEPT !.i = 0], [obs EXCEPT !.stream = M.g.ofd])
     IN Go(bi_windup(Mach))

\* the bytes written become the input of the reader
ReadBack ==
  /\ pc.at = "wound"
  /\ Goto(unzip_init(Mach), At("read"), obs)

\* need_bits(n), the value b & mask_bits[n], dump_bits(n)
ReadBits ==
  /\ pc.at = "read"
  /\ pc.i < Len(env.calls)
  /\ LET n == env.calls[pc.i + 1].length
         Go(M) ==
           Goto(dump_bits(M, n),
                [pc EXCEPT !.i = @ + 1, !.ll = Append(@, M.i.b % Pow2(n))], obs)
     IN Go(need_bits(Mach, n))

NextBits ==
  \/ SendBits
  \/ Windup
  \/ ReadBack
  \/ ReadBits

SpecBits == InitBits /\ [][NextBits]_vars

(***************************************************************************)
(* A dynamic block whose distance code lengths are all zero, from the     *)
(* point where inflate_dynamic has read the lengths: the two tables are   *)
(* built and inflate_codes decodes the bits of the file.  The literal/    *)
(* length code is the complete one of TableLengths, with symbols 100 and  *)
(* sym the two of 10 bits.  huft_build leaves of it a table of two        *)
(* entries, both the entry of sym, so the file starts with the index 0 or *)
(* 1 in its first lbits = 9 bits; DummyTail is in the seven bits that     *)
(* follow.  sym is a length symbol, or 256, the end of the block.         *)
(***************************************************************************)
DummyTail == {0, 1, 85, 127}

DummyRuns ==
  { [mode |-> "dummy", input |-> <<>>, level |-> 6, build |-> build, x |-> 100, y |-> sym,
     nl |-> 286, nd |-> nd, sym |-> sym, file |-> <<index, 2 * z>>] :
      build \in Builds, nd \in {1, 2, 30}, sym \in (TableSymbols \ {100}),
      index \in {0, 1}, z \in DummyTail }

\* literal_lengths with the nd distance lengths all zero
DummyLengths(run) ==
  [c \in 1..(run.nl + run.nd) |-> IF c > run.nl THEN 0 ELSE TableLengths(run)[c]]

InitDummy ==
  /\ env \in DummyRuns
  /\ pc = [at |-> "tables", eof |-> FALSE, max_blindex |-> 0, e |-> 1, r |-> 0,
           tl |-> None, td |-> None, bl |-> 0, bd |-> 0,
           ll |-> DummyLengths(env), i |-> 0, l |-> 0]
  /\ dfl = Deflate_new
  /\ trs = Trees_new
  /\ gzs = unzip_init([g |-> [GzipState_new(<<>>, env.level) EXCEPT !.ofd = env.file],
                       i |-> Inflate_new]).g
  /\ ifl = Inflate_new
  /\ halt = ""
  /\ obs = [emitted |-> <<>>, tokens |-> 0, matches |-> 0, far |-> 0, stream |-> <<>>,
            res |-> -1, err |-> -1, td |-> [ret |-> -1, t |-> None, m |-> 0, halt |-> ""]]

\* inflate_dynamic from the two calls of huft_build to its call of
\* inflate_codes                                          (inflate.rs 805-840)
DynamicTables ==
  /\ pc.at = "tables"
  /\ LET Built(rl, rd) ==
           IF rl.halt # "" THEN Goto([Mach EXCEPT !.halt = rl.halt], pc, obs)
           ELSE IF rl.ret # 0 THEN Goto(Mach, [At("inflated") EXCEPT !.r = rl.ret], obs)
           ELSE IF rd.halt # ""
           THEN Goto([Mach EXCEPT !.halt = rd.halt], pc, [obs EXCEPT !.td = rd])
           ELSE IF rd.ret # 0
           THEN Goto(Mach, [At("inflated") EXCEPT !.r = rd.ret], [obs EXCEPT !.td = rd])
           ELSE Goto(Mach, [At("codes") EXCEPT !.tl = rl.t, !.td = rd.t, !.bl = rl.m,
                                               !.bd = rd.m],
                     [obs EXCEPT !.td = rd])
     IN Built(dynamic_literal_table(pc.ll, env.nl, None, ifl.lbits, env.build),
              dynamic_distance_table(pc.ll, env.nl, env.nd, ifl.dbits, env.build))

NextDummy ==
  \/ DynamicTables
  \/ Codes
  \/ Inflated

SpecDummy == InitDummy /\ [][NextDummy]_vars

(***************************************************************************)
(* Properties of the runs.                                                 *)
(***************************************************************************)
\* a run has ended: the process stopped, or unzip returned
Ended == pc.at \in {"halted", "unzipped"}

\* the run compressed and decompressed, and the output file holds the input
Delivered == halt = "" /\ obs.err = 0 /\ gzs.ofd = InBytes(env.input)

\* C1: for every input and every level 1..9, compressing and then
\* decompressing ends with exactly the input written to the output file.
C1_RoundTrip ==
  (env.mode = "zip" /\ env.level \in 1..9 /\ Ended) => Delivered

\* C2: every match that deflate_fast is about to pass to ct_tally is a match
\* in the window as it is then (window[match_start + i] = window[strstart + i]
\* for all i below match_length), also after the window has slid, and
\* check_match never ends the run with "invalid match".
C2_MatchInWindow ==
  /\ halt # "exit: invalid match"
  /\ (pc.at = "tally" /\ dfl.match_length >= MIN_MATCH) =>
       \A i \in 0..(dfl.match_length - 1) :
         ArrGet(dfl.window, dfl.match_start + i) = ArrGet(dfl.window, dfl.strstart + i)

\* matches have been tallied and one more is about to be, in a window that
\* has slid (block_start went below 0)
C2_MatchAfterSlide ==
  /\ pc.at = "tally"
  /\ dfl.match_length >= MIN_MATCH
  /\ obs.matches > 0
  /\ dfl.block_start < 0

\* C6: at level 0 compressing and then decompressing reproduces the input,
\* and every block written is a stored block.
C6_StoreOnly ==
  (env.mode = "zip" /\ env.level = 0 /\ Ended) =>
    /\ Delivered
    /\ \A k \in 1..Len(obs.emitted) : obs.emitted[k].kind = "stored"

\* C7: the run on RunLen copies of one byte ends without a fatal error, all
\* its matches have distance 1, the compressed stream is under 1% of the
\* input, and decompressing gives the input back.
C7_LongRun ==
  (env.mode = "zip" /\ env.input \in LongInputs /\ Ended) =>
    /\ halt = ""
    /\ obs.matches > 0 /\ obs.far = 0
    /\ Len(obs.stream) * 100 < RunLen
    /\ Delivered

\* a stored block costs its 3 header bits, the padding to a byte, and the
\* two length words                                       (trees.rs 476-483)
StoredOverhead == ((3 + 7) \div 8) + 4

\* C8: when the matcher found no match in the input, the compressed stream
\* is longer than the input by at most the header overhead of its blocks.
C8_NoExpansion ==
  (env.mode = "zip" /\ pc.at = "zipped" /\ obs.matches = 0) =>
    Len(obs.stream) <= InLen(env.input) + StoredOverhead * Len(obs.emitted)

\* byte j (from 0) of what inflate_stored reads after going to the byte
\* boundary: the whole bytes left in the bit buffer, then the input buffer,
\* then the zeros get_byte gives at the end of the file
StoredAhead(j) ==
  LET held == (ifl.bk - (ifl.bk % 8)) \div 8
  IN IF j < held THEN Shr(ifl.bb, (ifl.bk % 8) + 8 * j) % 256
     ELSE IF gzs.inptr + (j - held) < gzs.insize
     THEN ArrGet(gzs.inbuf, gzs.inptr + (j - held))
     ELSE 0

\* C9: inflate_stored returns nonzero when LEN is not the one's complement
\* of NLEN, and then writes nothing to the window; when they agree it copies
\* exactly LEN bytes, the ones that follow NLEN, to the window at wp.
C9_StoredLength ==
  [][Stored =>
       LET len == StoredAhead(0) + 256 * StoredAhead(1)
           nlen == StoredAhead(2) + 256 * StoredAhead(3)
       IN IF len # 65535 - nlen
          THEN /\ pc'.at = "inflated" /\ pc'.r # 0
               /\ ifl'.slide = ifl.slide
          ELSE /\ halt' = ""
               /\ pc'.at = "inflated" => pc'.r = 0
               /\ ifl'.wp = ifl.wp + len
               /\ Len(ifl'.slide) <= ifl.wp + len
               /\ \A j \in 0..(len - 1) :
                    ArrGet(ifl'.slide, ifl.wp + j) = StoredAhead(4 + j)
               /\ \A x \in 0..(ifl.wp - 1) : ArrGet(ifl'.slide, x) = ArrGet(ifl.slide, x)
  ]_vars

\* a first block of three bytes was copied, and the block after it was
\* refused for its lengths
C9_CopiedThenRefused ==
  /\ env.mode = "unzip"
  /\ pc.at = "inflated" /\ pc.r = 1
  /\ ifl.slide = <<65, 0, 255>>

(***************************************************************************)
(* Properties of huft_build.                                               *)
(***************************************************************************)
\* the Kraft sum of the lengths b, in units of 2^-BMAX
RECURSIVE KraftFrom(_, _)
KraftFrom(b, q) ==
  IF q > Len(b) THEN 0
  ELSE (IF b[q] = 0 THEN 0 ELSE Pow2(BMAX - b[q])) + KraftFrom(b, q + 1)

Kraft(b) == KraftFrom(b, 1)

\* the units of the codes that come before the code of symbol q (from 1) in
\* the canonical order: shorter first, and among equals the lower symbol
RECURSIVE Before(_, _, _)
Before(b, q, r) ==
  IF r > Len(b) THEN 0
  ELSE (IF b[r] # 0 /\ (b[r] < b[q] \/ (b[r] = b[q] /\ r < q))
        THEN Pow2(BMAX - b[r]) ELSE 0) + Before(b, q, r + 1)

\* the canonical code of symbol q, its first bit the most significant
CanonCode(b, q) == Before(b, q, 1) \div Pow2(BMAX - b[q])

\* the next bits p of the input begin with the code of symbol q: the first
\* bit read is bit 0 of p
BeginsWith(b, p, q) == b[q] # 0 /\ p % Pow2(b[q]) = bi_reverse(CanonCode(b, q), b[q])

\* the walk inflate_codes would make from the entry h on the bits p, `used`
\* bits having been consumed by the links passed: the terminal entry found
RECURSIVE Resolve(_, _, _)
Resolve(h, p, used) ==
  IF h.v.k = "N" THEN [ok |-> h.e <= 16, n |-> h.v.n, b |-> h.b, used |-> used]
  ELSE IF Len(h.v.t) = 0 THEN [ok |-> FALSE, n |-> 0, b |-> 0, used |-> used]
  ELSE Resolve(h.v.t[(p % Len(h.v.t)) + 1], p \div Pow2(h.b), used + h.b)

\* C4: on a complete set of lengths huft_build returns 0 and a table in
\* which every bit pattern resolves to the terminal entry of the symbol
\* whose code the pattern begins with, the bit count of the entry being
\* the bits of the code consumed at its level.
C4_CompleteTable ==
  (env.mode = "huft" /\ pc.at # "huft_build" /\ Kraft(env.b) = Pow2(BMAX)) =>
    /\ halt = ""
    /\ obs.huft.ret = 0
    /\ obs.huft.t.some
    /\ \A p \in 0..(Pow2(MaxCodeLen) - 1) :
         \E q \in 1..Len(env.b) :
           /\ BeginsWith(env.b, p, q)
           /\ LET Found(r) == r.ok /\ r.n = q - 1 /\ r.used + r.b = env.b[q]
              IN Found(Resolve(obs.huft.t.h, p, 0))

\* C5: on an over-subscribed set of lengths huft_build returns a nonzero
\* code without a panic and without a table.
C5_OverSubscribed ==
  (env.mode = "huft" /\ pc.at # "huft_build" /\ Kraft(env.b) > Pow2(BMAX)) =>
    /\ halt = ""
    /\ obs.huft.ret # 0
    /\ ~obs.huft.t.some

(***************************************************************************)
(* Properties of inflate_codes.                                            *)
(***************************************************************************)
\* bit j (from 0) of what inflate_codes reads next: the bits held in its
\* local b, then the input buffer, then the zeros get_byte gives at the end
CodesAhead(j) ==
  IF j < ifl.k THEN Shr(ifl.b, j) % 2
  ELSE LET q == j - ifl.k
           at == gzs.inptr + (q \div 8)
       IN Shr(IF at < gzs.insize THEN ArrGet(gzs.inbuf, at) ELSE 0, q % 8) % 2

\* the literal/length entry and the distance entry of the next token
NextCode == pc.tl.h.v.t[CodesAhead(0) + 2 * CodesAhead(1) + 4 * CodesAhead(2) + 1]

NextDist == pc.td.h.v.t[CodesAhead(NextCode.b) + 1]

RECURSIVE TreeKraft(_, _, _, _)
TreeKraft(tree, elems, cap, len) ==
  IF len > cap THEN 0
  ELSE (Cardinality({n \in 1..elems : tree[n].len = len}) * Pow2(cap - len))
         + TreeKraft(tree, elems, cap, len + 1)

TreeOk(tree, elems, cap) ==
  /\ \A n \in 1..elems : tree[n].len <= cap
  /\ TreeKraft(tree, elems, cap, 1) <= Pow2(cap)

\* C3: after build_tree the lengths of the symbols of the tree it built have
\* Kraft sum at most 1 and none is above the cap of the tree: 15 for the
\* literal/length tree and the distance tree, 7 for the bit length tree.
C3_CodeLengths ==
  /\ (pc.at = "flush_d" /\ halt = "") => TreeOk(trs.dyn_ltree, L_CODES, MAX_BITS)
  /\ (pc.at = "flush_bl" /\ halt = "") => TreeOk(trs.dyn_dtree, D_CODES, MAX_BITS)
  /\ (pc.at = "flush_emit" /\ halt = "") => TreeOk(trs.bltree, BL_CODES, MAX_BL_BITS)

(***************************************************************************)
(* Properties of inflate_dynamic.                                          *)
(***************************************************************************)
\* bit j (from 0) of what a decoder holding the bits b, k reads next
BitsAhead(b, k, j) ==
  IF j < k THEN Shr(b, j) % 2
  ELSE LET q == j - k
           at == gzs.inptr + (q \div 8)
       IN Shr(IF at < gzs.insize THEN ArrGet(gzs.inbuf, at) ELSE 0, q % 8) % 2

RECURSIVE FieldAhead(_, _, _, _)
FieldAhead(b, k, from, len) ==
  IF len = 0 THEN 0 ELSE BitsAhead(b, k, from) + (2 * FieldAhead(b, k, from + 1, len - 1))

\* the block that inflate_block reads next is a dynamic block whose header
\* declares more than 286 literal/length codes or more than 30 distance codes
OverDeclared ==
  /\ FieldAhead(ifl.bb, ifl.bk, 1, 2) = 2
  /\ \/ 257 + FieldAhead(ifl.bb, ifl.bk, 3, 5) > 286
     \/ 1 + FieldAhead(ifl.bb, ifl.bk, 8, 5) > 30

\* the symbol of the code that the loop over the code lengths reads next,
\* and the number of lengths it stands for
LengthSymbol == pc.tl.h.v.t[FieldAhead(ifl.b, ifl.k, 0, 2) + 1].v.n

LengthRepeat ==
  CASE LengthSymbol = 16 -> 3 + FieldAhead(ifl.b, ifl.k, 2, 2)
    [] LengthSymbol = 17 -> 3 + FieldAhead(ifl.b, ifl.k, 2, 3)
    [] LengthSymbol = 18 -> 11 + FieldAhead(ifl.b, ifl.k, 2, 7)
    [] OTHER -> 1

Compressing ==
  Zip \/ Deflate \/ Find \/ Tally \/ Fill \/ FlushL \/ FlushD \/ FlushBl \/ FlushEmit

\* C12: at the levels 1..9 the compressor goes on to the end of the input;
\* every block it flushes before the end has the last-block flag 0, and when
\* deflate returns the stream has one block or more, the last of them with
\* the flag 1.
C12_LastBlockFlag ==
  [][(Compressing /\ env.level \in 1..9) =>
       /\ halt' = ""
       /\ \A k \in 1..(Len(obs'.emitted) - 1) : obs'.emitted[k].last = 0
       /\ IF pc'.at = "zipped"
          THEN Len(obs'.emitted) >= 1 /\ obs'.emitted[Len(obs'.emitted)].last = 1
          ELSE \A k \in 1..Len(obs'.emitted) : obs'.emitted[k].last = 0
  ]_vars

\* C13: the byte count flush_block returns for the last block of a stream,
\* compressed_len >> 3, is the number of bytes that the codec has written.
C13_CompressedCount ==
  [][(FlushEmit /\ pc.eof /\ halt' = "") =>
       U64Eq(U64Shr3(trs'.compressed_len), U64(Len(obs'.stream)))
  ]_vars

(***************************************************************************)
(* Properties of the output of the decoder.                                *)
(***************************************************************************)
\* C14: when inflate has returned 0, the bytes that the decoder has put in
\* its window are the bytes written to the output, in the same order, and
\* bytes_out counts them.
C14_WindowWritten ==
  (env.mode = "unzip" /\ pc.at = "inflated" /\ pc.r = 0 /\ halt = "") =>
    /\ gzs.ofd = ifl.slide
    /\ gzs.bytes_out = Len(ifl.slide)

\* C15: when the decoder comes to the end of its input buffer in the middle
\* of the stream, it goes on with the next byte of the compressed input: the
\* blocks decode to the bytes they hold, as they do from a single buffer.
C15_AcrossRefill ==
  (env.mode = "refill" /\ pc.at = "inflated" /\ halt = "") =>
    /\ pc.r = 0
    /\ ifl.slide = env.data

\* the stored block that inflate_stored reads next has a LEN that is the
\* complement of its NLEN
StoredLengthsAgree ==
  LET skip == ifl.bk % 8
  IN FieldAhead(ifl.bb, ifl.bk, skip, 16)
       = 65535 - FieldAhead(ifl.bb, ifl.bk, skip + 16, 16)

\* C16: inflate decodes the blocks one after the other.  The first bit of a
\* block header is the last-block flag and the next two are the type; type
\* 3 ends inflate with a nonzero result; a block that fails ends inflate
\* with a nonzero result; a block that succeeds is followed by another
\* header when its flag is 0 and ends inflate with 0 when its flag is 1.
C16_BlockSequence ==
  [][/\ (Block /\ halt' = "") =>
          LET e == FieldAhead(ifl.bb, ifl.bk, 0, 1)
              t == FieldAhead(ifl.bb, ifl.bk, 1, 2)
          IN /\ pc'.e = e
             /\ t = 3 => (pc'.at = "inflated" /\ pc'.r # 0)
             /\ t = 0 => pc'.at = "stored"
             /\ pc'.at = "block" => e = 0
             /\ pc'.at = "inflated" => (pc'.r # 0 \/ e = 1)
     /\ (Block /\ FieldAhead(ifl.bb, ifl.bk, 1, 2) \in {0, 3}) => halt' = ""
     /\ Stored =>
          /\ halt' = ""
          /\ pc'.e = pc.e
          /\ IF ~StoredLengthsAgree THEN pc'.at = "inflated" /\ pc'.r # 0
             ELSE IF pc.e = 1 THEN pc'.at = "inflated" /\ pc'.r = 0
             ELSE pc'.at = "block"
  ]_vars

\* inflate has returned 0 after a second block, which had the flag set
C16_SecondBlockLast ==
  /\ env.mode = "unzip"
  /\ pc.at = "inflated"
  /\ pc.r = 0
  /\ pc.e = 1
  /\ ifl.slide = <<65, 67>>

BlockWritten == (IF pc.eof THEN Len(obs'.stream) ELSE Len(gzs'.ofd)) - Len(gzs.ofd)

\* C18: flush_block writes the block in the smallest of the encodings it
\* can use: when the bytes of the block are at hand, the block it writes
\* is not larger than the stored encoding of these bytes, which is
\* stored_len + 4 bytes after the header bits.
C18_SmallestEncoding ==
  [][(FlushEmit /\ halt' = "" /\ flush_block_buf(dfl).some) =>
       BlockWritten <= flush_block_buf(dfl).stored_len + StoredOverhead
  ]_vars

C22_TreeCounts ==
  /\ halt \notin {"panic: not enough codes", "panic: too many codes"}
  /\ \A k \in 1..Len(obs.emitted) :
       obs.emitted[k].kind = "dynamic" =>
         /\ 257 <= trs.l_desc.max_code + 1 /\ trs.l_desc.max_code + 1 <= L_CODES
         /\ 1 <= trs.d_desc.max_code + 1 /\ trs.d_desc.max_code + 1 <= D_CODES

\* C23: after build_tree every symbol of the tree with a nonzero frequency
\* (END_BLOCK and the symbols forced in among them) has a bit length of at
\* least 1, every symbol with frequency zero has bit length 0, and at least
\* two symbols have a length that can be sent.
LengthsFollowFreq(tree, elems) ==
  /\ \A n \in 0..(elems - 1) :
       IF ArrGet(tree, n).freq # 0 THEN ArrGet(tree, n).len >= 1
       ELSE ArrGet(tree, n).len = 0
  /\ Cardinality({n \in 0..(elems - 1) : ArrGet(tree, n).len >= 1}) >= 2

C23_LengthsFollowFreq ==
  /\ (pc.at = "flush_d" /\ halt = "") => LengthsFollowFreq(trs.dyn_ltree, L_CODES)
  /\ (pc.at = "flush_bl" /\ halt = "") => LengthsFollowFreq(trs.dyn_dtree, D_CODES)

\* the code of symbol n as gen_codes counted it, before bi_reverse
PlainCode(tree, n) == bi_reverse(ArrGet(tree, n).code, ArrGet(tree, n).len)

\* C24: after gen_codes the symbols 0..max_code with a nonzero length, the
\* symbol max_code among them, have codes that before the bit reversal are
\* consecutive integers in symbol order among the codes of one length, and
\* none is a prefix of another.
C24_CanonicalCodes ==
  (env.mode = "gen_codes" /\ pc.at = "coded" /\ halt = "") =>
    LET tree == trs.dyn_ltree
        Coded == {n \in 0..(Len(env.file) - 1) : ArrGet(tree, n).len # 0}
        len(n) == ArrGet(tree, n).len
    IN \A a \in Coded : \A b \in Coded :
         /\ (a < b /\ len(a) = len(b) /\ \A c \in Coded : (a < c /\ c < b) => len(c) # len(a))
              => PlainCode(tree, b) = PlainCode(tree, a) + 1
         /\ (a # b /\ len(a) <= len(b))
              => Shr(PlainCode(tree, b), len(b) - len(a)) # PlainCode(tree, a)

\* the hash of three bytes, as lm_init and update_hash make it up
\*                                             (deflate.rs 135-144)
Hash3(a, b, c) == update_hash(update_hash(update_hash(0, a), b), c)

\* the call insert_string(strstart) at the top of the loop of deflate_fast
InsertStringCall ==
  /\ pc.at = "find"
  /\ halt' = ""
  /\ LET s == dfl.strstart
         h == Hash3(ArrGet(dfl.window, s), ArrGet(dfl.window, s + 1),
                    ArrGet(dfl.window, s + 2))
     IN ~ /\ dfl'.ins_h = h
          /\ dfl'.hash_head = MapGet(dfl.head, h)
          /\ MapGet(dfl'.head, h) = s
          /\ ArrGet(dfl'.prev, s % WSIZE) = dfl'.hash_head

\* C25: every call insert_string(s) of deflate_fast, the first one after a
\* match that was skipped over too, uses the hash of window[s], window[s+1],
\* window[s+2]; it returns the head[h] there was, sets head[h] = s and
\* prev[s & WMASK] to what it returns.
C25_InsertString == [][~InsertStringCall]_vars

\* the call of fill_window that slides the window: the first of the refill
\* loop, when strstart has reached WSIZE + MAX_DIST      (deflate.rs 164, 279)
WindowSlides ==
  /\ pc.at = "fill"
  /\ halt = "" /\ halt' = ""
  /\ dfl.lookahead < MIN_LOOKAHEAD /\ ~dfl.eofile
  /\ dfl.strstart >= WSIZE + MAX_DIST

\* the entries of a table after the slide: those that were at least WSIZE
\* are WSIZE less and name the same three bytes, the others are NIL
SlidEntry(before, after) ==
  IF before >= WSIZE
  THEN /\ after = before - WSIZE
       /\ \A j \in 0..(MIN_MATCH - 1) :
            ArrGet(dfl'.window, after + j) = ArrGet(dfl.window, before + j)
  ELSE after = NIL

\* C26: when fill_window slides the window, the bytes of the upper 32K are
\* the lower 32K, strstart and block_start are 32768 less, and every entry
\* of head and prev that was at least 32768 is 32768 less and names the
\* same bytes, every other entry is NIL.
C26_Slide ==
  [][WindowSlides =>
       /\ dfl'.strstart = dfl.strstart - WSIZE
       /\ dfl'.block_start = dfl.block_start - WSIZE
       /\ \A k \in 0..(dfl.strstart + dfl.lookahead - WSIZE - 1) :
            ArrGet(dfl'.window, k) = ArrGet(dfl.window, k + WSIZE)
       /\ DOMAIN dfl'.head = DOMAIN dfl.head
       /\ \A x \in DOMAIN dfl.head : SlidEntry(dfl.head[x], dfl'.head[x])
       /\ Len(dfl'.prev) = Len(dfl.prev)
       /\ \A k \in 1..Len(dfl.prev) : SlidEntry(dfl.prev[k], dfl'.prev[k])]_vars

\* the window has slid under a block that began at 0 and holds bytes that
\* differ, and entries of both kinds were there
C26_HasSlid ==
  /\ pc.at = "find"
  /\ env.input[1].k = "pairs"
  /\ dfl.block_start = 0 - WSIZE
  /\ dfl.strstart >= MAX_DIST /\ dfl.strstart < WSIZE
  /\ \E k \in 1..Len(dfl.prev) : dfl.prev[k] # NIL
  /\ \E x \in DOMAIN dfl.head : dfl.head[x] # NIL
  /\ \E x \in DOMAIN dfl.head : dfl.head[x] = NIL
  /\ ArrGet(dfl.window, 0) # ArrGet(dfl.window, 1)

\* C27: between the calls of send_bits bi_valid is below 16 and bi_buf has
\* no bit at or above bi_valid, after bi_windup both are 0, and need_bits
\* and dump_bits, reading the bytes written with the lengths of the calls
\* in their order, get the values of the calls.
C27_BitsReadBack ==
  env.mode = "bits" =>
    /\ halt = ""
    /\ pc.at = "send" => (gzs.bi_valid < BUF_SIZE /\ gzs.bi_buf < Pow2(gzs.bi_valid))
    /\ pc.at = "wound" => (gzs.bi_valid = 0 /\ gzs.bi_buf = 0)
    /\ pc.at = "read" => \A c \in 1..pc.i : pc.ll[c] = env.calls[c].value

C29_BuffersEmptied ==
  [][halt' = "" =>
       /\ trs'.last_lit <= LIT_BUFSIZE - 1
       /\ trs'.last_dist <= DIST_BUFSIZE
       /\ pc.at = "flush_emit" =>
            /\ trs'.last_lit = 0
            /\ trs'.last_dist = 0
            /\ trs'.last_flags = 0
            /\ trs'.flags = 0
            /\ trs'.flag_bit = 1]_vars

\* Where a stream of stored blocks that starts at file[p] stands at the end
\* of the file: "cut" when the file ends inside a block and no block with
\* the last-block flag has been completed, "whole" when such a block is
\* complete, "other" when a block is not a well-formed stored block.
RECURSIVE StoredStream(_, _)
StoredStream(file, p) ==
  IF p > Len(file) THEN "cut"
  ELSE IF (file[p] \div 2) % 4 # 0 THEN "other"
  ELSE IF p + 4 > Len(file) THEN "cut"
  ELSE LET len == file[p + 1] + (256 * file[p + 2])
           nlen == file[p + 3] + (256 * file[p + 4])
       IN IF len + nlen # 65535 THEN "other"
          ELSE IF p + 4 + len > Len(file) THEN "cut"
          ELSE IF file[p] % 2 = 1 THEN "whole"
          ELSE StoredStream(file, p + 5 + len)

\* C30: inflate ends on every finite input, and when the stream ends before
\* a block with the last-block flag is complete it ends with an error: it
\* does not return 0 after decoding bytes that are not in the file.
C30_TruncatedIsError ==
  (env.mode = "unzip" /\ pc.at = "inflated" /\ StoredStream(env.file, 1) = "cut") =>
    pc.r # 0

====
